---------------------------- MODULE Spec2Model ----------------------------
(***************************************************************************)
(* Crossworder: the CrosswordSolver class of script.js.                    *)
(*                                                                         *)
(* The model follows the solve pipeline of the class: solveCrossword,      *)
(* solveCrosswordThread, validateGrid, generateSlots, generateConstraints, *)
(* setupDomains, randomizeDomains, ac3 / revise and backtrackingSolve with *)
(* its helpers.  JavaScript objects are insertion-ordered maps and are     *)
(* modelled as sequences of <<key, value>> pairs; arrays are sequences;    *)
(* grid positions and word indices keep the 0-based numbering of the       *)
(* source.  A word is the sequence of its letters.  A slot name            *)
(* `${number}ACROSS` is the pair <<number, "ACROSS">>.                     *)
(* The grid editor (mode buttons, cellClicked, the drag handlers and the   *)
(* number management) is modelled too, as actions on the same grid.        *)
(***************************************************************************)
EXTENDS Integers, Sequences, FiniteSets

VARIABLES
    grid,               \* this.grid: array of rows, each an array of cell strings
    isNumberEntryMode,  \* this.isNumberEntryMode
    isLetterEntryMode,  \* this.isLetterEntryMode
    isDragMode,         \* this.isDragMode
    isDragging,         \* this.isDragging
    toggleToBlack,      \* this.toggleToBlack
    words,              \* this.words
    wordLengthCache,    \* this.wordLengthCache: length -> array of words
    letterFrequencies,  \* this.letterFrequencies: letter -> count
    slots,              \* this.slots: slot name -> array of [r, c]
    constraints,        \* this.constraints: slot -> slot -> array of [idxA, idxB]
    domains,            \* this.domains: slot name -> array of words
    cellContents,       \* this.cellContents: "r,c" -> letter or null
    solution,           \* this.solution: slot name -> word
    recursiveCalls,     \* this.recursiveCalls
    isSolving,          \* this.isSolving
    buttonDisabled,     \* solveButton.disabled
    status,             \* the outcome shown by the last updateStatus / alert of a solve
    pc,                 \* position of the solve callback
    queue,              \* ac3: the work set (a Set iterates in insertion order)
    ac3Success,         \* solveCrosswordThread: const ac3Success
    assignment,         \* backtrackingSolve: the assignment object shared by all frames
    cache,              \* backtrackingSolve: the cache object shared by all frames
    stack,              \* the active frames of backtrackingSolve, innermost last
    mode,               \* "call": entering a frame, "loop": in the for loop, "ret": a frame returned
    retval,             \* the value the last finished frame returned
    returned,           \* history: of the frame that returned last, this.domains at its
                        \* entry and whether one of its forward checks pruned a domain
    lastInferences,     \* history: the result of the last forwardCheck call
    activeSolves,       \* history: solves started whose finally callback has not run
    busyAlerts,         \* history: the "already being solved" alert was shown
    acrossDisplay,      \* across-display.value: the entries joined by newlines
    downDisplay,        \* down-display.value: the entries joined by newlines
    solutions,          \* Solver (js/solver.js): this.solutions
    cancel,             \* the caller's cancel signal was raised (no field of the class)
    undoStack,          \* UIManager (js/ui.js): this.undoStack
    redoStack,          \* UIManager: this.redoStack
    currentMode,        \* UIManager: this.currentMode
    tableCells          \* UIManager: the cells of the rendered table, by position

vars == <<grid, isNumberEntryMode, isLetterEntryMode, isDragMode, isDragging,
          toggleToBlack, words, wordLengthCache, letterFrequencies, slots, constraints,
          domains, cellContents, solution, recursiveCalls, isSolving,
          buttonDisabled, status, pc, queue, ac3Success, assignment, cache,
          stack, mode, retval, returned, lastInferences, activeSolves,
          busyAlerts, acrossDisplay, downDisplay, solutions, cancel, undoStack,
          redoStack, currentMode, tableCells>>

editorVars == <<isNumberEntryMode, isLetterEntryMode, isDragMode, isDragging,
                toggleToBlack>>
dictVars == <<words, wordLengthCache, letterFrequencies>>
solverVars == <<slots, constraints, domains, cellContents>>
searchVars == <<assignment, cache, stack, mode, retval, returned, lastInferences>>
displayVars == <<acrossDisplay, downDisplay>>
uiVars == <<undoStack, redoStack, currentMode, tableCells>>

-----------------------------------------------------------------------------
(* Bounds of the model *)

\* longest word list loaded
MaxWords == 5

\* largest number a cell is given in the editor specification
MaxNumber == 5

\* longest word list in the specifications that apply one helper of the search
MaxHelperWords == 2

\* largest number of cells of a grid in the grid-analysis specification
MaxCells == 6

-----------------------------------------------------------------------------
(* Generic helpers *)

Range(s) == {s[i] : i \in 1..Len(s)}

\* const x = v; F(x): the value v is computed once
With(v, F(_)) == CHOOSE r \in {F(x) : x \in {v}} : TRUE

Max2(a, b) == IF a >= b THEN a ELSE b

\* Array.prototype.filter
RECURSIVE SelectSeqBy(_, _)
SelectSeqBy(s, keep) ==
    IF s = <<>> THEN <<>>
    ELSE IF Head(s) \in keep THEN <<Head(s)>> \o SelectSeqBy(Tail(s), keep)
    ELSE SelectSeqBy(Tail(s), keep)

\* the arrangements an in-place Fisher-Yates shuffle can leave in an array
ShuffleOutcomes(s) ==
    {[i \in 1..Len(s) |-> s[p[i]]] :
        p \in {q \in [1..Len(s) -> 1..Len(s)] : \A i, j \in 1..Len(s) : q[i] = q[j] => i = j}}

(* Insertion-ordered objects *)
Keys(m) == [i \in 1..Len(m) |-> m[i][1]]

KeySet(m) == {m[i][1] : i \in 1..Len(m)}

Has(m, k) == k \in KeySet(m)

Get(m, k) == m[CHOOSE i \in 1..Len(m) : m[i][1] = k][2]

Put(m, k, v) ==
    IF Has(m, k)
    THEN [i \in 1..Len(m) |-> IF m[i][1] = k THEN <<k, v>> ELSE m[i]]
    ELSE Append(m, <<k, v>>)

Values(m) == [i \in 1..Len(m) |-> m[i][2]]

-----------------------------------------------------------------------------
(* Cells, letters and words *)

Letters == {"A", "B", "C"}

\* the decimal numerals of the numbers 1..9
Digits == <<"1", "2", "3", "4", "5", "6", "7", "8", "9">>

NumberLabels == {Digits[n] : n \in 1..Len(Digits)}

Block == "#"

Blank == " "

\* /\d/.test(val)
IsNumber(val) == val \in NumberLabels

\* /[A-Z]/.test(val)
IsLetter(val) == val \in Letters

\* val.trim() !== ""
IsNonBlank(val) == val # Blank

Rows(g) == Len(g)

Cols(g) == Len(g[1])

\* this.grid[r][c], 0-based
Cell(g, r, c) == g[r + 1][c + 1]

-----------------------------------------------------------------------------
(* Word loading: cacheWordsByLength and calculateLetterFrequencies *)

RECURSIVE CountLetter(_, _)
CountLetter(word, ch) ==
    IF word = <<>> THEN 0
    ELSE (IF Head(word) = ch THEN 1 ELSE 0) + CountLetter(Tail(word), ch)

\* wordLengthCache[len] is the array of the words of that length, in list order
cacheWordsByLength(ws) ==
    [len \in {Len(w) : w \in Range(ws)} |->
        SelectSeqBy(ws, {w \in Range(ws) : Len(w) = len})]

RECURSIVE SumLetter(_, _)
SumLetter(ws, ch) ==
    IF ws = <<>> THEN 0 ELSE CountLetter(Head(ws), ch) + SumLetter(Tail(ws), ch)

\* letterFrequencies[ch] exists for the letters that occur in some word
calculateLetterFrequencies(ws) ==
    [ch \in UNION {Range(w) : w \in Range(ws)} |-> SumLetter(ws, ch)]

-----------------------------------------------------------------------------
(* Grid analysis: validateGrid, generateSlots, getSlotPositions *)

\* a slip: the rows are not compared with the first row
validateGrid_NonEmptyOnly(g) ==
    Len(g) # 0

validateGrid(g) ==
    /\ Len(g) # 0
    /\ \A r \in 2..Len(g) : Len(g[r]) = Len(g[1])

\* a slip: the run is not stopped at a Block
RECURSIVE getSlotPositions_ThroughBlocks(_, _, _, _)
getSlotPositions_ThroughBlocks(g, r, c, direction) ==
    IF r < Rows(g) /\ c < Cols(g)
    THEN <<<<r, c>>>> \o (IF direction = "across"
                          THEN getSlotPositions_ThroughBlocks(g, r, c + 1, direction)
                          ELSE getSlotPositions_ThroughBlocks(g, r + 1, c, direction))
    ELSE <<>>

\* the while loop of getSlotPositions, started at (r, c)
RECURSIVE getSlotPositions(_, _, _, _)
getSlotPositions(g, r, c, direction) ==
    IF r < Rows(g) /\ c < Cols(g) /\ Cell(g, r, c) # Block
    THEN <<<<r, c>>>> \o (IF direction = "across"
                          THEN getSlotPositions(g, r, c + 1, direction)
                          ELSE getSlotPositions(g, r + 1, c, direction))
    ELSE <<>>

\* generateSlots, first loop: the keys and values of cellContents
buildCellContents(g) ==
    LET keys == {p \in (0..Rows(g) - 1) \X (0..Cols(g) - 1) :
                    \/ IsLetter(Cell(g, p[1], p[2]))
                    \/ Cell(g, p[1], p[2]) # Block /\ IsNonBlank(Cell(g, p[1], p[2]))}
    IN [p \in keys |-> IF IsLetter(Cell(g, p[1], p[2])) THEN Cell(g, p[1], p[2]) ELSE "null"]

\* generateSlots, second loop: the body for the cell (r, c), applied to the slots so far
\* a slip: a run of one cell is kept as a slot
slotsAtCell_KeepShort(g, r, c, sl) ==
    IF ~IsNumber(Cell(g, r, c)) THEN sl
    ELSE LET across == getSlotPositions(g, r, c, "across")
             afterAcross ==
                 IF (c = 0 \/ Cell(g, r, c - 1) = Block) /\ Len(across) >= 1
                 THEN Put(sl, <<Cell(g, r, c), "ACROSS">>, across)
                 ELSE sl
             down == getSlotPositions(g, r, c, "down")
         IN IF (r = 0 \/ Cell(g, r - 1, c) = Block) /\ Len(down) >= 1
            THEN Put(afterAcross, <<Cell(g, r, c), "DOWN">>, down)
            ELSE afterAcross

slotsAtCell(g, r, c, sl) ==
    IF ~IsNumber(Cell(g, r, c)) THEN sl
    ELSE LET across == getSlotPositions(g, r, c, "across")
             afterAcross ==
                 IF (c = 0 \/ Cell(g, r, c - 1) = Block) /\ Len(across) >= 2
                 THEN Put(sl, <<Cell(g, r, c), "ACROSS">>, across)
                 ELSE sl
             down == getSlotPositions(g, r, c, "down")
         IN IF (r = 0 \/ Cell(g, r - 1, c) = Block) /\ Len(down) >= 2
            THEN Put(afterAcross, <<Cell(g, r, c), "DOWN">>, down)
            ELSE afterAcross

\* generateSlots, second loop: row-major scan from cell number n
RECURSIVE identifySlots(_, _, _)
identifySlots(g, n, sl) ==
    IF n >= Rows(g) * Cols(g) THEN sl
    ELSE With(slotsAtCell(g, n \div Cols(g), n % Cols(g), sl),
              LAMBDA next : identifySlots(g, n + 1, next))

-----------------------------------------------------------------------------
(* generateConstraints *)

\* positionMap after the positions idx.. of one slot were pushed
RECURSIVE collectPositions(_, _, _, _)
collectPositions(pm, slot, positions, idx) ==
    IF idx >= Len(positions) THEN pm
    ELSE LET key == positions[idx + 1]
             old == IF Has(pm, key) THEN Get(pm, key) ELSE <<>>
         IN With(Put(pm, key, Append(old, <<slot, idx>>)),
                 LAMBDA next : collectPositions(next, slot, positions, idx + 1))

\* positionMap after the slots n.. were collected
RECURSIVE buildPositionMap(_, _, _)
buildPositionMap(sl, n, pm) ==
    IF n > Len(sl) THEN pm
    ELSE With(collectPositions(pm, sl[n][1], sl[n][2], 0),
              LAMBDA next : buildPositionMap(sl, n + 1, next))

\* a slip: this.constraints[slotA] is set to {} on every push
pushOverlap_Reset(cons, slotA, slotB, idxA, idxB) ==
    Put(cons, slotA, Put(<<>>, slotB, <<<<idxA, idxB>>>>))

\* this.constraints[slotA][slotB].push([idxA, idxB]), creating the objects on demand
pushOverlap(cons, slotA, slotB, idxA, idxB) ==
    LET inner == IF Has(cons, slotA) THEN Get(cons, slotA) ELSE <<>>
        list == IF Has(inner, slotB) THEN Get(inner, slotB) ELSE <<>>
    IN Put(cons, slotA, Put(inner, slotB, Append(list, <<idxA, idxB>>)))

\* the double loop over the entries i < j of one positionMap value
RECURSIVE overlapPairs(_, _, _, _)
overlapPairs(cons, overlaps, i, j) ==
    IF i > Len(overlaps) THEN cons
    ELSE IF j > Len(overlaps) THEN overlapPairs(cons, overlaps, i + 1, i + 2)
    ELSE LET slotA == overlaps[i][1]
             idxA == overlaps[i][2]
             slotB == overlaps[j][1]
             idxB == overlaps[j][2]
         IN With(pushOverlap(cons, slotA, slotB, idxA, idxB),
                 LAMBDA half :
                     With(pushOverlap(half, slotB, slotA, idxB, idxA),
                          LAMBDA next : overlapPairs(next, overlaps, i, j + 1)))

RECURSIVE constraintsFrom(_, _, _)
constraintsFrom(pm, n, cons) ==
    IF n > Len(pm) THEN cons
    ELSE With(IF Len(pm[n][2]) > 1 THEN overlapPairs(cons, pm[n][2], 1, 2) ELSE cons,
              LAMBDA next : constraintsFrom(pm, n + 1, next))

generateConstraints(sl) ==
    With(buildPositionMap(sl, 1, <<>>), LAMBDA positionMap : constraintsFrom(positionMap, 1, <<>>))

-----------------------------------------------------------------------------
(* setupDomains *)

\* a slip: the pre-filled letters are left out of the pattern
slotPattern_AllWild(cc, positions) == [i \in 1..Len(positions) |-> "."]

\* the regex source: one pre-filled letter or '.' per position
slotPattern(cc, positions) ==
    [i \in 1..Len(positions) |->
        IF positions[i] \in DOMAIN cc /\ cc[positions[i]] # "null"
        THEN cc[positions[i]] ELSE "."]

\* new RegExp(`^${pattern}$`).test(word)
regexTest(pattern, word) ==
    /\ Len(word) = Len(pattern)
    /\ \A i \in 1..Len(pattern) : pattern[i] = "." \/ pattern[i] = word[i]

\* a slip: when no candidate fits, the first one is patched with the pre-filled
\* letters instead of being dropped
filterPattern_PatchWhenNoneFits(ws, pattern) ==
    IF ws = <<>> \/ \E w \in Range(ws) : regexTest(pattern, w)
    THEN SelectSeqBy(ws, {w \in Range(ws) : regexTest(pattern, w)})
    ELSE <<[i \in 1..Len(pattern) |-> IF pattern[i] = "." THEN Head(ws)[i] ELSE pattern[i]]>>

RECURSIVE filterPattern(_, _)
filterPattern(ws, pattern) ==
    IF ws = <<>> THEN <<>>
    ELSE IF regexTest(pattern, Head(ws))
         THEN <<Head(ws)>> \o filterPattern(Tail(ws), pattern)
         ELSE filterPattern(Tail(ws), pattern)

\* a slip: a slot whose filtered array is empty gets no domain entry
setupDomains_DropEmpty(sl, cc, wlc) ==
    LET kept == {n \in 1..Len(sl) :
                    \E w \in Range(IF Len(sl[n][2]) \in DOMAIN wlc
                                   THEN wlc[Len(sl[n][2])] ELSE <<>>) :
                        regexTest(slotPattern(cc, sl[n][2]), w)}
        entry(n) == <<sl[n][1],
                      SelectSeqBy(wlc[Len(sl[n][2])],
                                  {w \in Range(wlc[Len(sl[n][2])]) :
                                      regexTest(slotPattern(cc, sl[n][2]), w)})>>
        all == [n \in 1..Len(sl) |-> IF n \in kept THEN entry(n) ELSE <<>>]
    IN SelectSeqBy(all, {all[n] : n \in kept})

setupDomains(sl, cc, wlc) ==
    [n \in 1..Len(sl) |->
        LET positions == sl[n][2]
            length == Len(positions)
            possibleWords == IF length \in DOMAIN wlc THEN wlc[length] ELSE <<>>
        IN <<sl[n][1], filterPattern(possibleWords, slotPattern(cc, positions))>>]

-----------------------------------------------------------------------------
(* AC-3: revise and the arcs of the work set *)

\* the words of domains[var1] that the filter of revise keeps
\* a slip: the matching word is sought in the domain of var1 itself
reviseKept_OwnDomain(dom, cons, var1, var2) ==
    LET overlaps == Get(Get(cons, var1), var2)
        dom1 == Get(dom, var1)
        keep == {word1 \in Range(dom1) :
                    \E o \in Range(overlaps) :
                        \E word2 \in Range(dom1) : word1[o[1] + 1] = word2[o[2] + 1]}
    IN SelectSeqBy(dom1, keep)

reviseKept(dom, cons, var1, var2) ==
    LET overlaps == Get(Get(cons, var1), var2)
        dom1 == Get(dom, var1)
        dom2 == Get(dom, var2)
        keep == {word1 \in Range(dom1) :
                    \E o \in Range(overlaps) :
                        \E word2 \in Range(dom2) : word1[o[1] + 1] = word2[o[2] + 1]}
    IN SelectSeqBy(dom1, keep)

\* the value revise returns
reviseChanged(dom, cons, var1, var2) ==
    Len(reviseKept(dom, cons, var1, var2)) < Len(Get(dom, var1))

\* this.domains after revise(var1, var2)
revise(dom, cons, var1, var2) ==
    IF reviseChanged(dom, cons, var1, var2)
    THEN Put(dom, var1, reviseKept(dom, cons, var1, var2))
    ELSE dom

\* a slip: the arc is read but never deleted from the Set
dequeued_Keep(q) == q

\* ac3: Array.from(queue).shift() and queue.delete of that arc
dequeued(q) == Tail(q)

\* a slip: the wipe-out test is missing
wipedOut_Never(dom, var1) == FALSE

\* ac3: this.domains[var1].length === 0 after a revise that returned true
wipedOut(dom, var1) == Len(Get(dom, var1)) = 0

\* queue.add for the arcs of one constraints[slotA], in key order
RECURSIVE addArcs(_, _, _)
addArcs(q, arcs, n) ==
    IF n > Len(arcs) THEN q
    ELSE With(IF arcs[n] \in Range(q) THEN q ELSE Append(q, arcs[n]),
              LAMBDA next : addArcs(next, arcs, n + 1))

\* ac3: the queue built before the while loop
initialQueue(cons) ==
    LET arcsOf(i) == [j \in 1..Len(cons[i][2]) |-> <<cons[i][1], cons[i][2][j][1]>>]
        build[i \in 0..Len(cons)] ==
            IF i = 0 THEN <<>> ELSE addArcs(build[i - 1], arcsOf(i), 1)
    IN build[Len(cons)]

\* a slip: no arc is re-enqueued after a revision
requeueArcs_None(cons, var1, var2) == <<>>

\* ac3: the arcs (neighbor, var1) re-enqueued after revise(var1, var2) shrank var1
requeueArcs(cons, var1, var2) ==
    LET nbrs == Keys(Get(cons, var1))
    IN [i \in 1..Len(SelectSeqBy(nbrs, Range(nbrs) \ {var2})) |->
            <<SelectSeqBy(nbrs, Range(nbrs) \ {var2})[i], var1>>]

-----------------------------------------------------------------------------
(* Backtracking helpers *)

\* an object used as a plain map: {...a, [k]: v} and delete a[k]
Assign(a, k, v) == [x \in DOMAIN a \cup {k} |-> IF x = k THEN v ELSE a[x]]

Unassign(a, k) == [x \in DOMAIN a \ {k} |-> a[x]]

EmptyObject == [x \in {} |-> x]

\* a slip: the key is built from the slot names only
assignmentKeyOf_NamesOnly(a) == {<<s, "*">> : s \in DOMAIN a}

\* JSON.stringify(Object.entries(assignment).sort()): the entries in canonical order
assignmentKeyOf(a) == {<<s, a[s]>> : s \in DOMAIN a}

neighborsOf(cons, slot) == IF Has(cons, slot) THEN Keys(Get(cons, slot)) ELSE <<>>

\* a slip: idx1 and idx2 swapped
wordsMatch_Swapped(cons, var1, word1, var2, word2) ==
    \A o \in Range(Get(Get(cons, var1), var2)) : word1[o[2] + 1] = word2[o[1] + 1]

wordsMatch(cons, var1, word1, var2, word2) ==
    \A o \in Range(Get(Get(cons, var1), var2)) : word1[o[1] + 1] = word2[o[2] + 1]

wordMatchesPreFilledLetters(sl, cc, slot, word) ==
    LET positions == Get(sl, slot)
    IN \A i \in 1..Len(positions) :
        LET preFilled == IF positions[i] \in DOMAIN cc THEN cc[positions[i]] ELSE "null"
        IN ~(preFilled # "null" /\ preFilled # word[i])

\* a slip: the neighbours that are not assigned yet are not looked at
isConsistent_AssignedOnly(sl, cc, cons, dom, slot, word, asg) ==
    /\ wordMatchesPreFilledLetters(sl, cc, slot, word)
    /\ \A neighbor \in Range(neighborsOf(cons, slot)) :
        neighbor \in DOMAIN asg => wordsMatch(cons, slot, word, neighbor, asg[neighbor])

\* a slip: a word that another slot already carries is refused
isConsistent_AllDifferent(sl, cc, cons, dom, slot, word, asg) ==
    /\ \A other \in DOMAIN asg : other # slot => asg[other] # word
    /\ wordMatchesPreFilledLetters(sl, cc, slot, word)
    /\ \A neighbor \in Range(neighborsOf(cons, slot)) :
        IF neighbor \in DOMAIN asg
        THEN wordsMatch(cons, slot, word, neighbor, asg[neighbor])
        ELSE \E w \in Range(Get(dom, neighbor)) : wordsMatch(cons, slot, word, neighbor, w)

\* a slip: every word of an unassigned neighbour must match, not some word
isConsistent_AllViable(sl, cc, cons, dom, slot, word, asg) ==
    /\ wordMatchesPreFilledLetters(sl, cc, slot, word)
    /\ \A neighbor \in Range(neighborsOf(cons, slot)) :
        IF neighbor \in DOMAIN asg
        THEN wordsMatch(cons, slot, word, neighbor, asg[neighbor])
        ELSE \A w \in Range(Get(dom, neighbor)) : wordsMatch(cons, slot, word, neighbor, w)

isConsistent(sl, cc, cons, dom, slot, word, asg) ==
    /\ wordMatchesPreFilledLetters(sl, cc, slot, word)
    /\ \A neighbor \in Range(neighborsOf(cons, slot)) :
        IF neighbor \in DOMAIN asg
        THEN wordsMatch(cons, slot, word, neighbor, asg[neighbor])
        ELSE \E w \in Range(Get(dom, neighbor)) : wordsMatch(cons, slot, word, neighbor, w)

\* a slip: the filter keeps every word
compatibleWords_Unfiltered(cons, dom, slot, value, neighbor) == Get(dom, neighbor)

\* the filter of forwardCheck for one neighbour
compatibleWords(cons, dom, slot, value, neighbor) ==
    SelectSeqBy(Get(dom, neighbor),
                {w \in Range(Get(dom, neighbor)) : wordsMatch(cons, slot, value, neighbor, w)})

\* forwardCheck: the loop over the neighbours n.. ; the result carries the
\* domains it leaves, and either the inferences object or failed (return false)
RECURSIVE forwardCheckFrom(_, _, _, _, _, _, _)
forwardCheckFrom(cons, dom, slot, value, asg, n, inferences) ==
    LET nbrs == neighborsOf(cons, slot)
    IN IF n > Len(nbrs) THEN [failed |-> FALSE, inferences |-> inferences, domains |-> dom]
       ELSE IF nbrs[n] \in DOMAIN asg
            THEN forwardCheckFrom(cons, dom, slot, value, asg, n + 1, inferences)
       ELSE LET newDomain == compatibleWords(cons, dom, slot, value, nbrs[n])
            IN IF Len(newDomain) = 0
               THEN [failed |-> TRUE, inferences |-> <<>>, domains |-> dom]
               ELSE With(<<Put(dom, nbrs[n], newDomain),
                           Put(inferences, nbrs[n], Get(dom, nbrs[n]))>>,
                         LAMBDA next : forwardCheckFrom(cons, next[1], slot, value, asg,
                                                        n + 1, next[2]))

forwardCheck(cons, dom, slot, value, asg) ==
    forwardCheckFrom(cons, dom, slot, value, asg, 1, <<>>)

\* a slip: nothing is restored
restoreDomains_Skip(dom, fc) == dom

\* restoreDomains(inferences); fc is the result of forwardCheck
restoreDomains(dom, fc) ==
    IF fc.failed THEN dom
    ELSE LET restored[n \in 0..Len(fc.inferences)] ==
                IF n = 0 THEN dom
                ELSE Put(restored[n - 1], fc.inferences[n][1], fc.inferences[n][2])
         IN restored[Len(fc.inferences)]

\* selectUnassignedVariable, MRV loop over unassigned[n..]; candidates is empty
\* exactly while minSize is still Infinity
RECURSIVE mrvCandidates(_, _, _, _, _)
mrvCandidates(dom, unassigned, n, minSize, candidates) ==
    IF n > Len(unassigned) THEN candidates
    ELSE LET slot == unassigned[n]
             size == Len(Get(dom, slot))
         IN IF candidates = <<>> \/ size < minSize
            THEN mrvCandidates(dom, unassigned, n + 1, size, <<slot>>)
            ELSE IF size = minSize
                 THEN mrvCandidates(dom, unassigned, n + 1, minSize, Append(candidates, slot))
                 ELSE mrvCandidates(dom, unassigned, n + 1, minSize, candidates)

\* selectUnassignedVariable, degree loop over candidates[n..]
RECURSIVE degreeCandidates(_, _, _, _, _)
degreeCandidates(cons, candidates, n, maxDegree, finalCandidates) ==
    IF n > Len(candidates) THEN finalCandidates
    ELSE LET slot == candidates[n]
             deg == IF Has(cons, slot) THEN Len(Get(cons, slot)) ELSE 0
         IN IF deg > maxDegree
            THEN degreeCandidates(cons, candidates, n + 1, deg, <<slot>>)
            ELSE IF deg = maxDegree
                 THEN degreeCandidates(cons, candidates, n + 1, maxDegree,
                                       Append(finalCandidates, slot))
                 ELSE degreeCandidates(cons, candidates, n + 1, maxDegree, finalCandidates)

\* selectUnassignedVariable: the slots the random tie-break can return
\* (the empty set stands for the return of null)
\* a slip: the degree loop is left out
selectUnassignedVariable_SkipDegree(dom, cons, asg) ==
    With(SelectSeqBy(Keys(dom), KeySet(dom) \ DOMAIN asg),
         LAMBDA unassigned :
             IF Len(unassigned) = 0 THEN {}
             ELSE Range(mrvCandidates(dom, unassigned, 1, 0, <<>>)))

selectUnassignedVariable(dom, cons, asg) ==
    With(SelectSeqBy(Keys(dom), KeySet(dom) \ DOMAIN asg),
         LAMBDA unassigned :
             IF Len(unassigned) = 0 THEN {}
             ELSE With(mrvCandidates(dom, unassigned, 1, 0, <<>>),
                       LAMBDA candidates :
                           Range(degreeCandidates(cons, candidates, 1, -1, <<>>))))

\* getFrequencyScore
getFrequencyScore(lf, word) ==
    LET sum[i \in 0..Len(word)] ==
            IF i = 0 THEN 0
            ELSE sum[i - 1] + (IF word[i] \in DOMAIN lf THEN lf[word[i]] ELSE 0)
    IN sum[Len(word)]

\* domain.sort by score (Array.prototype.sort is stable): insert w into a sorted array
RECURSIVE insertByScore(_, _, _)
insertByScore(lf, sorted, w) ==
    IF sorted = <<>> THEN <<w>>
    ELSE IF getFrequencyScore(lf, w) < getFrequencyScore(lf, Head(sorted))
         THEN <<w>> \o sorted
         ELSE <<Head(sorted)>> \o insertByScore(lf, Tail(sorted), w)

sortByScore(lf, domain) ==
    LET sorted[n \in 0..Len(domain)] ==
            IF n = 0 THEN <<>> ELSE insertByScore(lf, sorted[n - 1], domain[n])
    IN sorted[Len(domain)]

\* orderDomainValues: the arrays it can return (sort, then the tie-break shuffle)
orderDomainValues(lf, dom, slot) ==
    With(sortByScore(lf, Get(dom, slot)), LAMBDA sorted : ShuffleOutcomes(sorted))

\* parseInt(val, 10) of a numbered cell
parseInt(val) == CHOOSE n \in 1..Len(Digits) : Digits[n] = val

\* n.toString()
toString(n) == Digits[n]

\* displayWordList, the sort by parseInt of the digits of the name
\* (Array.prototype.sort is stable): insert name into a sorted array
RECURSIVE insertByNumber(_, _)
insertByNumber(sorted, name) ==
    IF sorted = <<>> THEN <<name>>
    ELSE IF parseInt(name[1]) < parseInt(Head(sorted)[1])
         THEN <<name>> \o sorted
         ELSE <<Head(sorted)>> \o insertByNumber(Tail(sorted), name)

\* displayWordList: Object.keys(this.slots).sort(...)
RECURSIVE sortedSlotsFrom(_, _, _)
sortedSlotsFrom(sl, n, sorted) ==
    IF n > Len(sl) THEN sorted
    ELSE sortedSlotsFrom(sl, n + 1, insertByNumber(sorted, sl[n][1]))

sortedSlots(sl) == sortedSlotsFrom(sl, 1, <<>>)

\* displayWordList, the loop over sortedSlots: the entries of the slots that
\* have a word, per stream; an entry `${slotNum}: ${word}` is the pair
\* <<slotNum, word>>
wordListsOf(sorted, sol) ==
    With(SelectSeq(sorted, LAMBDA n : n \in DOMAIN sol /\ n[2] = "ACROSS"),
         LAMBDA across :
             With(SelectSeq(sorted, LAMBDA n : n \in DOMAIN sol /\ n[2] = "DOWN"),
                  LAMBDA down :
                      [acrossWords |-> [i \in 1..Len(across) |-> <<across[i][1], sol[across[i]]>>],
                       downWords |-> [i \in 1..Len(down) |-> <<down[i][1], sol[down[i]]>>]]))

\* a slip: the slot names are not sorted
displayWordList_Unsorted(sl, sol) == wordListsOf(Keys(sl), sol)

\* displayWordList: the arrays acrossWords and downWords
displayWordList(sl, sol) == wordListsOf(sortedSlots(sl), sol)

-----------------------------------------------------------------------------
(* Inputs: the word lists and the grids of the model *)

\* the words of the model, in the order in which a word list names them
Vocabulary ==
    << <<"A", "A", "A">>, <<"B", "A", "B">>, <<"A", "B", "B">>, <<"B", "B", "A">>,
       <<"A", "B", "A">>, <<"A", "B">> >>

\* the word lists loadWords can leave in this.words: up to MaxWords words of the
\* vocabulary, in vocabulary order (every domain is re-ordered by
\* randomizeDomains before it is used)
WordLists ==
    UNION {{[i \in 1..n |-> Vocabulary[f[i]]] :
                f \in {h \in [1..n -> 1..Len(Vocabulary)] :
                          \A i \in 1..n - 1 : h[i] < h[i + 1]}} :
           n \in 0..MaxWords}

\* the grids of the model
Puzzles ==
    { <<<<"1", "A", "2">>, <<"A", "#", "A">>, <<"3", "B", " ">>>>,  \* four slots in a cycle
      <<<<"1", "A", "2">>, <<"A", "#", "A">>, <<"3", "B", "A">>>>,  \* pre-filled crossing cell
      <<<<"1", "A", " ">>, <<"A", "#", "#">>, <<" ", "#", "#">>>>,  \* two slots crossing
      <<<<"1", "A", " ">>, <<"#", "#", "#">>, <<"2", "A", " ">>>>,  \* two slots apart
      <<<<"1", "B">>, <<"#", "#">>>>,                   \* one slot of length 2
      <<<<"1", "1">>, <<"1", "B">>>>,                   \* repeated number label
      <<<<"#", "1">>, <<"#", "#">>>>,                   \* a run of length 1 only
      <<<<"#", "#">>, <<"#", "#">>>>,                   \* all Block
      <<<<"1", " ">>, <<"#", "#", "#">>>>,              \* rows of different length
      <<>> }                                            \* no rows

-----------------------------------------------------------------------------
(* The solve callback *)

\* the state the constructor leaves, once loadWords has filled the word caches
Constructed ==
    /\ isNumberEntryMode = FALSE
    /\ isLetterEntryMode = FALSE
    /\ isDragMode = FALSE
    /\ isDragging = FALSE
    /\ toggleToBlack = TRUE
    /\ wordLengthCache = cacheWordsByLength(words)
    /\ letterFrequencies = calculateLetterFrequencies(words)
    /\ slots = <<>>
    /\ constraints = <<>>
    /\ domains = <<>>
    /\ cellContents = EmptyObject
    /\ solution = EmptyObject
    /\ recursiveCalls = 0
    /\ isSolving = FALSE
    /\ buttonDisabled = FALSE
    /\ status = "None"
    /\ pc = "idle"
    /\ queue = <<>>
    /\ ac3Success = FALSE
    /\ assignment = EmptyObject
    /\ cache = EmptyObject
    /\ stack = <<>>
    /\ mode = "none"
    /\ retval = FALSE
    /\ returned = [entry |-> <<>>, pruned |-> FALSE]
    /\ lastInferences = [failed |-> FALSE, inferences |-> <<>>]
    /\ activeSolves = 0
    /\ busyAlerts = FALSE
    /\ acrossDisplay = <<>>
    /\ downDisplay = <<>>
    /\ solutions = <<>>
    /\ cancel = FALSE
    /\ undoStack = <<>>
    /\ redoStack = <<>>
    /\ currentMode = "default"
    /\ tableCells = <<>>

Init ==
    /\ grid \in Puzzles
    /\ words \in WordLists
    /\ Constructed

\* a slip: the isSolving test is missing
SolveCrossword_NoGuard ==
    /\ pc \in {"idle", "settled"}
    /\ isSolving' = TRUE
    /\ buttonDisabled' = TRUE
    /\ status' = "Solving"
    /\ pc' = "thread"
    /\ activeSolves' = activeSolves + 1
    /\ UNCHANGED <<grid, editorVars, dictVars, solverVars, solution, recursiveCalls, queue,
                   ac3Success, searchVars, busyAlerts, displayVars, solutions, cancel, uiVars>>

\* solveCrossword called while no callback of the solver is running: the click
\* handler, or a caller that invokes it again before the finally callback ran
SolveCrossword ==
    /\ pc \in {"idle", "settled"}
    /\ IF isSolving
       THEN /\ busyAlerts' = TRUE
            /\ UNCHANGED <<isSolving, buttonDisabled, status, pc, activeSolves>>
       ELSE /\ isSolving' = TRUE
            /\ buttonDisabled' = TRUE
            /\ status' = "Solving"
            /\ pc' = "thread"
            /\ activeSolves' = activeSolves + 1
            /\ UNCHANGED busyAlerts
    /\ UNCHANGED <<grid, editorVars, dictVars, solverVars, solution, recursiveCalls, queue,
                   ac3Success, searchVars, displayVars, solutions, cancel, uiVars>>

\* a slip: generateSlots does not empty this.domains and setupDomains keeps the
\* domain a slot already has
BuildSlots_KeepDomains ==
    /\ pc = "thread"
    /\ IF ~validateGrid(grid)
       THEN /\ status' = "InvalidGrid"
            /\ pc' = "settled"
            /\ UNCHANGED solverVars
       ELSE \E sl \in {identifySlots(grid, 0, <<>>)} :
            \E cc \in {buildCellContents(grid)} :
               /\ slots' = sl
               /\ cellContents' = cc
               /\ constraints' = generateConstraints(sl)
               /\ domains' = IF Keys(domains) = Keys(sl) THEN domains
                             ELSE setupDomains(sl, cc, wordLengthCache)
               /\ IF Len(sl) = 0
                  THEN status' = "NoSlots" /\ pc' = "settled"
                  ELSE status' = status /\ pc' = "randomize"
    /\ UNCHANGED <<grid, editorVars, dictVars, solution, recursiveCalls, isSolving, buttonDisabled,
                   queue, ac3Success, searchVars, activeSolves, busyAlerts, displayVars, solutions, cancel, uiVars>>

\* solveCrosswordThread up to the call of randomizeDomains: validateGrid, generateSlots
\* (with generateConstraints and setupDomains) and the test for no slots
BuildSlots ==
    /\ pc = "thread"
    /\ IF ~validateGrid(grid)
       THEN /\ status' = "InvalidGrid"
            /\ pc' = "settled"
            /\ UNCHANGED solverVars
       ELSE \E sl \in {identifySlots(grid, 0, <<>>)} :
            \E cc \in {buildCellContents(grid)} :
               /\ slots' = sl
               /\ cellContents' = cc
               /\ constraints' = generateConstraints(sl)
               /\ domains' = setupDomains(sl, cc, wordLengthCache)
               /\ IF Len(sl) = 0
                  THEN status' = "NoSlots" /\ pc' = "settled"
                  ELSE status' = status /\ pc' = "randomize"
    /\ UNCHANGED <<grid, editorVars, dictVars, solution, recursiveCalls, isSolving, buttonDisabled,
                   queue, ac3Success, searchVars, activeSolves, busyAlerts, displayVars, solutions, cancel, uiVars>>

\* a slip: the first domain is the bucket of wordLengthCache itself, not a
\* filtered copy, and the in-place shuffle re-orders the bucket
RandomizeDomains_SharedBucket ==
    /\ pc = "randomize"
    /\ \E shuffled \in [1..Len(domains) -> UNION {ShuffleOutcomes(d) : d \in Range(Values(domains))}] :
        /\ \A n \in 1..Len(domains) : shuffled[n] \in ShuffleOutcomes(domains[n][2])
        /\ domains' = [n \in 1..Len(domains) |-> <<domains[n][1], shuffled[n]>>]
        /\ wordLengthCache' =
              IF Len(shuffled[1]) > 0
              THEN [wordLengthCache EXCEPT ![Len(shuffled[1][1])] = shuffled[1]]
              ELSE wordLengthCache
    /\ queue' = initialQueue(constraints)
    /\ pc' = "ac3"
    /\ UNCHANGED <<grid, editorVars, words, letterFrequencies, slots, constraints,
                   cellContents, solution, recursiveCalls, isSolving, buttonDisabled,
                   status, ac3Success, searchVars, activeSolves, busyAlerts, displayVars, solutions, cancel, uiVars>>

\* randomizeDomains, then ac3 up to its while loop
RandomizeDomains ==
    /\ pc = "randomize"
    /\ \E shuffled \in [1..Len(domains) -> UNION {ShuffleOutcomes(d) : d \in Range(Values(domains))}] :
        /\ \A n \in 1..Len(domains) : shuffled[n] \in ShuffleOutcomes(domains[n][2])
        /\ domains' = [n \in 1..Len(domains) |-> <<domains[n][1], shuffled[n]>>]
    /\ queue' = initialQueue(constraints)
    /\ pc' = "ac3"
    /\ UNCHANGED <<grid, editorVars, dictVars, slots, constraints, cellContents, solution,
                   recursiveCalls, isSolving, buttonDisabled, status, ac3Success,
                   searchVars, activeSolves, busyAlerts, displayVars, solutions, cancel, uiVars>>

\* one iteration of the while loop of ac3, or its return true
Ac3Step ==
    /\ pc = "ac3"
    /\ IF Len(queue) = 0
       THEN /\ ac3Success' = TRUE
            /\ pc' = "ac3done"
            /\ UNCHANGED <<queue, domains>>
       ELSE LET var1 == Head(queue)[1]
                var2 == Head(queue)[2]
                revised == reviseChanged(domains, constraints, var1, var2)
                newDomains == revise(domains, constraints, var1, var2)
            IN /\ domains' = newDomains
               /\ IF revised /\ wipedOut(newDomains, var1)
                  THEN /\ ac3Success' = FALSE
                       /\ pc' = "ac3done"
                       /\ queue' = dequeued(queue)
                  ELSE /\ queue' = IF revised
                                   THEN addArcs(dequeued(queue),
                                                requeueArcs(constraints, var1, var2), 1)
                                   ELSE dequeued(queue)
                       /\ UNCHANGED <<ac3Success, pc>>
    /\ UNCHANGED <<grid, editorVars, dictVars, slots, constraints, cellContents, solution,
                   recursiveCalls, isSolving, buttonDisabled, status, searchVars,
                   activeSolves, busyAlerts, displayVars, solutions, cancel, uiVars>>

\* a slip: a failed ac3 ends the solve
StartSearch_StopOnFailure ==
    /\ pc = "ac3done"
    /\ recursiveCalls' = 0
    /\ assignment' = EmptyObject
    /\ cache' = EmptyObject
    /\ stack' = <<>>
    /\ IF ac3Success
       THEN mode' = "call" /\ pc' = "search" /\ status' = status
       ELSE mode' = "none" /\ pc' = "settled" /\ status' = "NoSolution"
    /\ UNCHANGED <<grid, editorVars, dictVars, solverVars, solution, isSolving, buttonDisabled,
                   queue, ac3Success, retval, returned, lastInferences,
                   activeSolves, busyAlerts, displayVars, solutions, cancel, uiVars>>

\* solveCrosswordThread between ac3 and the first call of backtrackingSolve
StartSearch ==
    /\ pc = "ac3done"
    /\ recursiveCalls' = 0
    /\ assignment' = EmptyObject
    /\ cache' = EmptyObject
    /\ stack' = <<>>
    /\ mode' = "call"
    /\ pc' = "search"
    /\ UNCHANGED <<grid, editorVars, dictVars, solverVars, solution, isSolving, buttonDisabled,
                   status, queue, ac3Success, retval, returned, lastInferences,
                   activeSolves, busyAlerts, displayVars, solutions, cancel, uiVars>>

\* the value forwardCheck returns: the inferences object, or false
resultOf(fc) == [failed |-> fc.failed, inferences |-> fc.inferences]

\* entry of backtrackingSolve(assignment, cache) up to the for loop
BacktrackCall ==
    /\ pc = "search"
    /\ mode = "call"
    /\ IF Cardinality(DOMAIN assignment) = Len(slots)
       THEN /\ solution' = assignment
            /\ mode' = "ret"
            /\ retval' = TRUE
            /\ returned' = [entry |-> domains, pruned |-> FALSE]
            /\ UNCHANGED <<recursiveCalls, cache, stack>>
       ELSE /\ recursiveCalls' = recursiveCalls + 1
            /\ UNCHANGED solution
            /\ LET assignmentKey == assignmentKeyOf(assignment)
                   candidates == selectUnassignedVariable(domains, constraints, assignment)
               IN IF assignmentKey \in DOMAIN cache
                  THEN /\ mode' = "ret"
                       /\ retval' = cache[assignmentKey]
                       /\ returned' = [entry |-> domains, pruned |-> FALSE]
                       /\ UNCHANGED <<cache, stack>>
                  ELSE IF candidates = {}
                  THEN /\ cache' = Assign(cache, assignmentKey, FALSE)
                       /\ mode' = "ret"
                       /\ retval' = FALSE
                       /\ returned' = [entry |-> domains, pruned |-> FALSE]
                       /\ UNCHANGED stack
                  ELSE \E varToAssign \in candidates :
                       \E orderedValues \in orderDomainValues(letterFrequencies, domains,
                                                              varToAssign) :
                          /\ stack' = Append(stack,
                                [varToAssign |-> varToAssign,
                                 orderedValues |-> orderedValues,
                                 next |-> 1,
                                 assignmentKey |-> assignmentKey,
                                 inferences |-> [failed |-> FALSE, inferences |-> <<>>],
                                 entry |-> domains,
                                 pruned |-> FALSE])
                          /\ mode' = "loop"
                          /\ UNCHANGED <<cache, retval, returned>>
    /\ UNCHANGED <<grid, editorVars, dictVars, solverVars, isSolving, buttonDisabled, status, pc,
                   queue, ac3Success, assignment, lastInferences, activeSolves, busyAlerts, displayVars, solutions, cancel, uiVars>>

\* the for loop of the innermost frame: the next candidate up to the recursive
\* call, or the end of the loop
BacktrackTry ==
    /\ pc = "search"
    /\ mode = "loop"
    /\ LET top == stack[Len(stack)]
           rest == SubSeq(stack, 1, Len(stack) - 1)
       IN IF top.next > Len(top.orderedValues)
          THEN /\ cache' = Assign(cache, top.assignmentKey, FALSE)
               /\ stack' = rest
               /\ mode' = "ret"
               /\ retval' = FALSE
               /\ returned' = [entry |-> top.entry, pruned |-> top.pruned]
               /\ UNCHANGED <<assignment, domains, lastInferences>>
          ELSE LET value == top.orderedValues[top.next]
                   assigned == Assign(assignment, top.varToAssign, value)
               IN IF ~isConsistent(slots, cellContents, constraints, domains,
                                   top.varToAssign, value, assignment)
                  THEN /\ stack' = Append(rest, [top EXCEPT !.next = @ + 1])
                       /\ UNCHANGED <<assignment, domains, cache, mode, retval,
                                      returned, lastInferences>>
                  ELSE \E fc \in {forwardCheck(constraints, domains, top.varToAssign,
                                               value, assigned)} :
                       /\ lastInferences' = resultOf(fc)
                       /\ IF ~fc.failed
                          THEN /\ assignment' = assigned
                               /\ domains' = fc.domains
                               /\ stack' = Append(rest,
                                              [top EXCEPT !.inferences = resultOf(fc),
                                                          !.pruned = @ \/ fc.domains # domains])
                               /\ mode' = "call"
                          ELSE /\ assignment' = assignment
                               /\ domains' = restoreDomains(fc.domains, resultOf(fc))
                               /\ stack' = Append(rest, [top EXCEPT !.next = @ + 1])
                               /\ mode' = "loop"
                       /\ UNCHANGED <<cache, retval, returned>>
    /\ UNCHANGED <<grid, editorVars, dictVars, slots, constraints, cellContents, solution,
                   recursiveCalls, isSolving, buttonDisabled, status, pc, queue,
                   ac3Success, activeSolves, busyAlerts, displayVars, solutions, cancel, uiVars>>

\* the calling frame after the recursive call returned
BacktrackReturn ==
    /\ pc = "search"
    /\ mode = "ret"
    /\ Len(stack) > 0
    /\ LET top == stack[Len(stack)]
           rest == SubSeq(stack, 1, Len(stack) - 1)
       IN IF retval
          THEN /\ cache' = Assign(cache, top.assignmentKey, TRUE)
               /\ stack' = rest
               /\ returned' = [entry |-> top.entry, pruned |-> top.pruned]
               /\ UNCHANGED <<assignment, domains, mode, retval>>
          ELSE /\ assignment' = Unassign(assignment, top.varToAssign)
               /\ domains' = restoreDomains(domains, top.inferences)
               /\ stack' = Append(rest, [top EXCEPT !.next = @ + 1])
               /\ mode' = "loop"
               /\ UNCHANGED <<cache, retval, returned>>
    /\ UNCHANGED <<grid, editorVars, dictVars, slots, constraints, cellContents, solution,
                   recursiveCalls, isSolving, buttonDisabled, status, pc, queue,
                   ac3Success, lastInferences, activeSolves, busyAlerts, displayVars, solutions, cancel, uiVars>>

\* solveCrosswordThread after the outermost backtrackingSolve returned; the
\* locals of the finished calls are gone
ReportResult ==
    /\ pc = "search"
    /\ mode = "ret"
    /\ Len(stack) = 0
    /\ status' = IF retval THEN "Solved" ELSE "NoSolution"
    /\ IF retval
       THEN \E lists \in {displayWordList(slots, solution)} :
               /\ acrossDisplay' = lists.acrossWords
               /\ downDisplay' = lists.downWords
       ELSE UNCHANGED displayVars
    /\ pc' = "settled"
    /\ mode' = "none"
    /\ queue' = <<>>
    /\ ac3Success' = FALSE
    /\ assignment' = EmptyObject
    /\ cache' = EmptyObject
    /\ retval' = FALSE
    /\ returned' = [entry |-> <<>>, pruned |-> FALSE]
    /\ lastInferences' = [failed |-> FALSE, inferences |-> <<>>]
    /\ UNCHANGED <<grid, editorVars, dictVars, solverVars, solution, recursiveCalls, isSolving,
                   buttonDisabled, stack, activeSolves, busyAlerts, solutions, cancel, uiVars>>

\* a slip: the finally callback re-enables the button but keeps the busy flag
Finally_KeepBusy ==
    /\ pc = "settled"
    /\ buttonDisabled' = FALSE
    /\ pc' = "idle"
    /\ activeSolves' = activeSolves - 1
    /\ UNCHANGED <<grid, editorVars, dictVars, solverVars, solution, recursiveCalls, status,
                   isSolving, queue, ac3Success, searchVars, busyAlerts, displayVars,
                   solutions, cancel, uiVars>>

\* the finally callback of solveCrossword
Finally ==
    /\ pc = "settled"
    /\ buttonDisabled' = FALSE
    /\ isSolving' = FALSE
    /\ pc' = "idle"
    /\ activeSolves' = activeSolves - 1
    /\ UNCHANGED <<grid, editorVars, dictVars, solverVars, solution, recursiveCalls, status, queue,
                   ac3Success, searchVars, busyAlerts, displayVars, solutions, cancel, uiVars>>

Next ==
    \/ SolveCrossword
    \/ BuildSlots
    \/ RandomizeDomains
    \/ Ac3Step
    \/ StartSearch
    \/ BacktrackCall
    \/ BacktrackTry
    \/ BacktrackReturn
    \/ ReportResult
    \/ Finally

Spec == Init /\ [][Next]_vars

\* the callbacks of one solve run to completion once started: the thread is
\* synchronous code, and the finally callback is a queued microtask
ThreadStep ==
    \/ BuildSlots
    \/ RandomizeDomains
    \/ Ac3Step
    \/ StartSearch
    \/ BacktrackCall
    \/ BacktrackTry
    \/ BacktrackReturn
    \/ ReportResult

LiveSpec == Init /\ [][Next]_vars /\ WF_vars(ThreadStep) /\ WF_vars(Finally)

-----------------------------------------------------------------------------
(* Grid analysis alone: every grid of up to MaxCells cells, with no words *)

GridSymbols == {Block, Blank, "1", "2"}

Grids ==
    {<<>>} \cup
    UNION {[1..shape[1] -> [1..shape[2] -> GridSymbols]] :
              shape \in {sh \in (1..MaxCells) \X (1..MaxCells) : sh[1] * sh[2] <= MaxCells}}

InitSlots ==
    /\ grid \in Grids
    /\ words = <<>>
    /\ Constructed

NextSlots ==
    \/ SolveCrossword
    \/ BuildSlots
    \/ Finally

SpecSlots == InitSlots /\ [][NextSlots]_vars

-----------------------------------------------------------------------------
(* The grid editor: mode buttons, cell clicks and drags *)

\* this.grid[row][col] = val
setCell(g, row, col, val) ==
    [g EXCEPT ![row + 1] = [g[row + 1] EXCEPT ![col + 1] = val]]

\* getNumberPositions, the sort: numberPositions.sort((a, b) => a.number - b.number)
\* of the entries idx.. pushed into the sorted array one by one (the sort is stable)
RECURSIVE sortByNumber(_, _, _)
sortByNumber(sorted, entries, idx) ==
    IF idx > Len(entries) THEN sorted
    ELSE LET e == entries[idx]
             k == Cardinality({i \in 1..Len(sorted) : sorted[i].number <= e.number})
         IN sortByNumber(SubSeq(sorted, 1, k) \o <<e>> \o SubSeq(sorted, k + 1, Len(sorted)),
                         entries, idx + 1)

\* getNumberPositions, the scan: the numbered cells from cell number n on, row-major
RECURSIVE scanNumberPositions(_, _, _)
scanNumberPositions(g, n, acc) ==
    IF n >= Rows(g) * Cols(g) THEN acc
    ELSE LET r == n \div Cols(g)
             c == n % Cols(g)
         IN scanNumberPositions(g, n + 1,
                IF IsNumber(Cell(g, r, c))
                THEN Append(acc, [number |-> parseInt(Cell(g, r, c)), row |-> r, col |-> c])
                ELSE acc)

getNumberPositions(g) == sortByNumber(<<>>, scanNumberPositions(g, 0, <<>>), 1)

\* getNewNumber: the loop from index i (1-based) with the current value of position
RECURSIVE getNewNumberFrom(_, _, _, _, _)
getNewNumberFrom(row, col, numberPositions, i, position) ==
    IF i > Len(numberPositions) THEN position + 1
    ELSE IF \/ row < numberPositions[i].row
            \/ (row = numberPositions[i].row /\ col < numberPositions[i].col)
         THEN position + 1
         ELSE getNewNumberFrom(row, col, numberPositions, i + 1, i)

getNewNumber(row, col, numberPositions) ==
    getNewNumberFrom(row, col, numberPositions, 1, 0)

\* a slip: only the numbers above newNumber move up
updateNumbersAfterInsertion_Above(g, row, col, newNumber) ==
    [r \in 1..Rows(g) |->
        [c \in 1..Cols(g) |->
            IF /\ IsNumber(g[r][c])
               /\ parseInt(g[r][c]) > newNumber
               /\ (r - 1 # row \/ c - 1 # col)
            THEN toString(parseInt(g[r][c]) + 1)
            ELSE g[r][c]]]

\* numbers not below newNumber move up by one, the clicked cell excepted
updateNumbersAfterInsertion(g, row, col, newNumber) ==
    [r \in 1..Rows(g) |->
        [c \in 1..Cols(g) |->
            IF /\ IsNumber(g[r][c])
               /\ parseInt(g[r][c]) >= newNumber
               /\ (r - 1 # row \/ c - 1 # col)
            THEN toString(parseInt(g[r][c]) + 1)
            ELSE g[r][c]]]

addNumberToCell(g, row, col) ==
    LET newNumber == getNewNumber(row, col, getNumberPositions(g))
    IN setCell(updateNumbersAfterInsertion(g, row, col, newNumber),
               row, col, toString(newNumber))

\* the cell becomes Blank, then the numbers above the removed one move down by one
removeNumberFromCell(g, row, col) ==
    LET removed == parseInt(Cell(g, row, col))
        cleared == setCell(g, row, col, Blank)
    IN [r \in 1..Rows(g) |->
           [c \in 1..Cols(g) |->
               IF IsNumber(cleared[r][c]) /\ parseInt(cleared[r][c]) > removed
               THEN toString(parseInt(cleared[r][c]) - 1)
               ELSE cleared[r][c]]]

updateNumbersAfterRemoval(g, row, col) ==
    IF IsNumber(Cell(g, row, col)) THEN removeNumberFromCell(g, row, col) ELSE g

\* toggleCell: the cell is written first, updateNumbersAfterRemoval reads it after
toggleCell(g, toBlack, row, col) ==
    IF toBlack /\ Cell(g, row, col) # Block
    THEN updateNumbersAfterRemoval(setCell(g, row, col, Block), row, col)
    ELSE IF ~toBlack /\ Cell(g, row, col) = Block
         THEN setCell(g, row, col, Blank)
         ELSE g

\* the largest number in a grid, 0 when no cell is numbered
largestNumber(g) ==
    LET np == getNumberPositions(g)
    IN IF Len(np) = 0 THEN 0 ELSE np[Len(np)].number

\* what the user may give to prompt(): a capital, a small letter, another
\* character, the empty string, or Cancel (null)
Cancelled == "null"
PromptInputs == {"A", "b", "7", "", Cancelled}

\* /^[A-Za-z]$/.test(letter)
IsSingleLetter(input) == input \in {"A", "B", "C", "a", "b", "c"}

\* letter.toUpperCase()
toUpperCase(letter) ==
    CASE letter = "a" -> "A"
      [] letter = "b" -> "B"
      [] letter = "c" -> "C"
      [] OTHER -> letter

solveVars == <<dictVars, solverVars, solution, recursiveCalls, isSolving, buttonDisabled,
               status, pc, queue, ac3Success, searchVars, activeSolves, busyAlerts, displayVars, solutions, cancel, uiVars>>

\* a slip: activating a mode leaves the other modes as they are
StartNumberEntryMode_KeepOthers ==
    /\ isNumberEntryMode' = ~isNumberEntryMode
    /\ UNCHANGED <<isLetterEntryMode, isDragMode>>
    /\ UNCHANGED <<grid, isDragging, toggleToBlack, solveVars>>

\* startNumberEntryMode; leaving an active mode goes through that mode's own toggle
StartNumberEntryMode ==
    /\ IF isNumberEntryMode
       THEN isNumberEntryMode' = FALSE /\ UNCHANGED <<isLetterEntryMode, isDragMode>>
       ELSE isNumberEntryMode' = TRUE /\ isLetterEntryMode' = FALSE /\ isDragMode' = FALSE
    /\ UNCHANGED <<grid, isDragging, toggleToBlack, solveVars>>

StartLetterEntryMode ==
    /\ IF isLetterEntryMode
       THEN isLetterEntryMode' = FALSE /\ UNCHANGED <<isNumberEntryMode, isDragMode>>
       ELSE isLetterEntryMode' = TRUE /\ isNumberEntryMode' = FALSE /\ isDragMode' = FALSE
    /\ UNCHANGED <<grid, isDragging, toggleToBlack, solveVars>>

StartDragMode ==
    /\ IF isDragMode
       THEN isDragMode' = FALSE /\ UNCHANGED <<isNumberEntryMode, isLetterEntryMode>>
       ELSE isDragMode' = TRUE /\ isNumberEntryMode' = FALSE /\ isLetterEntryMode' = FALSE
    /\ UNCHANGED <<grid, isDragging, toggleToBlack, solveVars>>

\* cellClicked on the cell (row, col); in letter entry mode the user answers the prompt
CellClicked ==
    /\ Len(grid) > 0
    /\ \E row \in 0..Rows(grid) - 1, col \in 0..Cols(grid) - 1 :
          IF isNumberEntryMode
          THEN IF IsNumber(Cell(grid, row, col))
               THEN grid' = removeNumberFromCell(grid, row, col)
               ELSE /\ largestNumber(addNumberToCell(grid, row, col)) <= MaxNumber
                    /\ grid' = addNumberToCell(grid, row, col)
          ELSE IF isLetterEntryMode
               THEN \E letter \in PromptInputs :
                       IF letter # Cancelled /\ letter # "" /\ IsSingleLetter(letter)
                       THEN grid' = setCell(grid, row, col, toUpperCase(letter))
                       ELSE grid' = grid
               ELSE IF isDragMode
                    THEN grid' = grid
                    ELSE IF Cell(grid, row, col) # Block
                         THEN grid' = updateNumbersAfterRemoval(
                                         setCell(grid, row, col, Block), row, col)
                         ELSE grid' = setCell(grid, row, col, Blank)
    /\ UNCHANGED <<editorVars, solveVars>>

\* startDrag: mousedown on the cell (row, col); the listener is attached in drag mode
StartDrag ==
    /\ Len(grid) > 0
    /\ isDragMode
    /\ \E row \in 0..Rows(grid) - 1, col \in 0..Cols(grid) - 1 :
          /\ toggleToBlack' = (Cell(grid, row, col) # Block)
          /\ grid' = toggleCell(grid, Cell(grid, row, col) # Block, row, col)
    /\ isDragging' = TRUE
    /\ UNCHANGED <<isNumberEntryMode, isLetterEntryMode, isDragMode, solveVars>>

\* onDrag: mousemove over the cell (row, col)
OnDrag ==
    /\ Len(grid) > 0
    /\ isDragging /\ isDragMode
    /\ \E row \in 0..Rows(grid) - 1, col \in 0..Cols(grid) - 1 :
          grid' = toggleCell(grid, toggleToBlack, row, col)
    /\ UNCHANGED <<editorVars, solveVars>>

\* stopDrag: mouseup
StopDrag ==
    /\ isDragMode
    /\ isDragging' = FALSE
    /\ UNCHANGED <<grid, isNumberEntryMode, isLetterEntryMode, isDragMode, toggleToBlack,
                   solveVars>>

\* the grids the editor starts from: generateGrid(2, 2), and grids numbered 1..k
\* in reading order
EditorGrids ==
    { <<<<"#", "#">>, <<"#", "#">>>>,
      <<<<"1", " ">>, <<"2", "#">>>>,
      <<<<"1", "A", "2">>>> }

InitEditor ==
    /\ grid \in EditorGrids
    /\ words = <<>>
    /\ Constructed

NextEditor ==
    \/ StartNumberEntryMode
    \/ StartLetterEntryMode
    \/ StartDragMode
    \/ CellClicked
    \/ StartDrag
    \/ OnDrag
    \/ StopDrag

SpecEditor == InitEditor /\ [][NextEditor]_vars

\* grids whose numbers are distinct but not 1..k in reading order: out of
\* order, and with a gap
NumberedGrids ==
    { <<<<"2", " ">>, <<"1", "#">>>>,
      <<<<"3", "A", "1">>>> }

InitNumbers ==
    /\ grid \in EditorGrids \cup NumberedGrids
    /\ words = <<>>
    /\ Constructed

SpecNumbers == InitNumbers /\ [][NextEditor]_vars

-----------------------------------------------------------------------------
(* The helpers of the search applied to any state of the solver: slots and *)
(* constraints as generateSlots leaves them, every domain any sub-array of *)
(* the slot's initial domain                                               *)

SubArrays(seq) == {SelectSeqBy(seq, S) : S \in SUBSET Range(seq)}

\* the objects this.domains can hold for the slots sl: initial domains, pruned or not
PrunedDomains(sl, cc, wlc, ws) ==
    LET initial == setupDomains(sl, cc, wlc)
    IN {[n \in 1..Len(sl) |-> <<sl[n][1], f[n]>>] :
           f \in {h \in [1..Len(sl) -> SubArrays(ws)] :
                     \A n \in 1..Len(sl) : h[n] \in SubArrays(initial[n][2])}}

HelperPuzzles ==
    { <<<<"1", "A", "2">>, <<"A", "#", "A">>, <<"3", "B", " ">>>>,  \* four slots in a cycle
      <<<<"1", "A", " ">>, <<"A", "#", "#">>, <<" ", "#", "#">>>>,  \* two slots crossing
      <<<<"1", " ", "2">>, <<" ", "#", " ">>, <<" ", "#", " ">>>>,  \* one slot crossing two
      <<<<"1", " ">>, <<"#", "#">>>> }                              \* one slot

InitHelpers ==
    /\ grid \in HelperPuzzles
    /\ words \in {ws \in WordLists : Len(ws) <= MaxHelperWords}
    /\ isNumberEntryMode = FALSE
    /\ isLetterEntryMode = FALSE
    /\ isDragMode = FALSE
    /\ isDragging = FALSE
    /\ toggleToBlack = TRUE
    /\ wordLengthCache = cacheWordsByLength(words)
    /\ letterFrequencies = calculateLetterFrequencies(words)
    /\ slots = identifySlots(grid, 0, <<>>)
    /\ constraints = generateConstraints(slots)
    /\ cellContents = buildCellContents(grid)
    /\ domains \in PrunedDomains(slots, cellContents, wordLengthCache, words)
    /\ solution = EmptyObject
    /\ recursiveCalls = 0
    /\ isSolving = TRUE
    /\ buttonDisabled = TRUE
    /\ status = "Solving"
    /\ pc = "helper"
    /\ queue = <<>>
    /\ ac3Success = FALSE
    /\ assignment = EmptyObject
    /\ cache = EmptyObject
    /\ stack = <<>>
    /\ mode = "none"
    /\ retval = FALSE
    /\ returned = [entry |-> <<>>, pruned |-> FALSE]
    /\ lastInferences = [failed |-> FALSE, inferences |-> <<>>]
    /\ activeSolves = 1
    /\ busyAlerts = FALSE
    /\ acrossDisplay = <<>>
    /\ downDisplay = <<>>
    /\ solutions = <<>>
    /\ cancel = FALSE
    /\ undoStack = <<>>
    /\ redoStack = <<>>
    /\ currentMode = "default"
    /\ tableCells = <<>>

\* backtrackingSolve, in the loop: assignment[varToAssign] = value and the call
\* forwardCheck(varToAssign, value, assignment), for any slot and any of its words
ForwardCheckCall ==
    /\ pc = "helper"
    /\ \E n \in 1..Len(slots) : \E value \in Range(domains[n][2]) :
       \E fc \in {forwardCheck(constraints, domains, slots[n][1], value,
                               Assign(assignment, slots[n][1], value))} :
          /\ assignment' = Assign(assignment, slots[n][1], value)
          /\ domains' = fc.domains
          /\ lastInferences' = resultOf(fc)
    /\ pc' = "checked"
    /\ UNCHANGED <<grid, editorVars, dictVars, slots, constraints, cellContents, solution,
                   recursiveCalls, isSolving, buttonDisabled, status, queue, ac3Success,
                   cache, stack, mode, retval, returned, activeSolves, busyAlerts, displayVars, solutions, cancel, uiVars>>

\* backtrackingSolve, after the call: delete assignment[varToAssign] and
\* restoreDomains(inferences)
RestoreCall ==
    /\ pc = "checked"
    /\ assignment' = EmptyObject
    /\ domains' = restoreDomains(domains, lastInferences)
    /\ pc' = "restored"
    /\ UNCHANGED <<grid, editorVars, dictVars, slots, constraints, cellContents, solution,
                   recursiveCalls, isSolving, buttonDisabled, status, queue, ac3Success,
                   cache, stack, mode, retval, returned, lastInferences, activeSolves,
                   busyAlerts, displayVars, solutions, cancel, uiVars>>

NextForwardCheck ==
    \/ ForwardCheckCall
    \/ RestoreCall

SpecForwardCheck == InitHelpers /\ [][NextForwardCheck]_vars

\* backtrackingSolve, const varToAssign = this.selectUnassignedVariable(assignment)
\* and the test for null, with no slot or one slot assigned
SelectCall ==
    /\ pc \in {"helper", "checked"}
    /\ LET candidates == selectUnassignedVariable(domains, constraints, assignment)
       IN IF candidates = {}
          THEN /\ cache' = Assign(cache, assignmentKeyOf(assignment), FALSE)
               /\ mode' = "ret"
               /\ retval' = FALSE
               /\ UNCHANGED stack
          ELSE /\ \E varToAssign \in candidates :
                     stack' = <<[varToAssign |-> varToAssign]>>
               /\ mode' = "loop"
               /\ UNCHANGED <<cache, retval>>
    /\ pc' = "selected"
    /\ UNCHANGED <<grid, editorVars, dictVars, solverVars, solution, recursiveCalls,
                   isSolving, buttonDisabled, status, queue, ac3Success, assignment,
                   returned, lastInferences, activeSolves, busyAlerts, displayVars, solutions, cancel, uiVars>>

NextSelect ==
    \/ ForwardCheckCall
    \/ SelectCall

SpecSelect == InitHelpers /\ [][NextSelect]_vars

-----------------------------------------------------------------------------
(* backtrackingSolve with the cache lookups and stores taken out, as a      *)
(* function: the set of results the call can have over all tie-breaks and   *)
(* shuffles.  A result is the returned boolean with this.solution and       *)
(* this.domains as the call leaves them.                                    *)

RECURSIVE uncachedSolve(_, _, _)
RECURSIVE uncachedLoop(_, _, _, _, _, _)

\* the for loop over orderedValues[i..] of a call that chose varToAssign
uncachedLoop(asg, dom, sol, varToAssign, orderedValues, i) ==
    IF i > Len(orderedValues)
    THEN {[ret |-> FALSE, solution |-> sol, domains |-> dom]}
    ELSE LET value == orderedValues[i]
             assigned == Assign(asg, varToAssign, value)
         IN IF ~isConsistent(slots, cellContents, constraints, dom, varToAssign, value, asg)
            THEN uncachedLoop(asg, dom, sol, varToAssign, orderedValues, i + 1)
            ELSE With(forwardCheck(constraints, dom, varToAssign, value, assigned),
                      LAMBDA fc :
                        IF fc.failed
                        THEN uncachedLoop(asg, restoreDomains(fc.domains, resultOf(fc)), sol,
                                          varToAssign, orderedValues, i + 1)
                        ELSE UNION {IF o.ret THEN {o}
                                    ELSE uncachedLoop(asg,
                                             restoreDomains(o.domains, resultOf(fc)),
                                             o.solution, varToAssign, orderedValues, i + 1) :
                                    o \in uncachedSolve(assigned, fc.domains, sol)})

uncachedSolve(asg, dom, sol) ==
    IF Cardinality(DOMAIN asg) = Len(slots)
    THEN {[ret |-> TRUE, solution |-> asg, domains |-> dom]}
    ELSE With(selectUnassignedVariable(dom, constraints, asg),
              LAMBDA candidates :
                IF candidates = {}
                THEN {[ret |-> FALSE, solution |-> sol, domains |-> dom]}
                ELSE UNION {uncachedLoop(asg, dom, sol, choice[1], choice[2], 1) :
                            choice \in UNION {{<<v, ordered>> :
                                                 ordered \in orderDomainValues(
                                                                letterFrequencies, dom, v)} :
                                              v \in candidates}})

\* word lists of Words.txt that list a word more than once (loadWords keeps
\* repeated lines), and one that does not
MemoWordLists ==
    {[i \in 1..Len(f) |-> Vocabulary[f[i]]] :
        f \in {<<1, 1, 2, 3, 3, 4>>, <<1, 2, 2, 3, 4, 5>>, <<1, 1, 2, 3, 4, 4>>,
               <<1, 2, 3, 4, 5>>}}

InitMemo ==
    /\ grid = <<<<"1", "A", "2">>, <<"A", "#", "A">>, <<"3", "B", " ">>>>
    /\ words \in MemoWordLists
    /\ Constructed

SpecMemo == InitMemo /\ [][Next]_vars

-----------------------------------------------------------------------------
(* ac3 as a function, and ac3 with the arc taken from any place of the work  *)
(* set: the body of the while loop is the one of the source, only the choice *)
(* of the arc is left open                                                  *)

\* a slip: a revision that shrank a domain re-enqueues nothing
afterRevise_Unchanged(q, cons, var1, var2, revised) == q

\* ac3: the work set after revise(var1, var2), q being the set without the arc
afterRevise(q, cons, var1, var2, revised) ==
    IF revised THEN addArcs(q, requeueArcs(cons, var1, var2), 1) ELSE q

\* ac3: the while loop from a queue q, giving the returned boolean and this.domains
RECURSIVE ac3Loop(_, _, _)
ac3Loop(dom, cons, q) ==
    IF Len(q) = 0
    THEN [success |-> TRUE, domains |-> dom]
    ELSE LET var1 == Head(q)[1]
             var2 == Head(q)[2]
             revised == reviseChanged(dom, cons, var1, var2)
             newDomains == revise(dom, cons, var1, var2)
         IN IF revised /\ wipedOut(newDomains, var1)
            THEN [success |-> FALSE, domains |-> newDomains]
            ELSE ac3Loop(newDomains, cons,
                         afterRevise(dequeued(q), cons, var1, var2, revised))

\* ac3(), first in first out as the source takes the arcs
ac3(dom, cons) == ac3Loop(dom, cons, initialQueue(cons))

\* queue.delete of the arc at place k
deleteArc(q, k) == SubSeq(q, 1, k - 1) \o SubSeq(q, k + 1, Len(q))

\* the state at the entry of ac3: slots, constraints and domains as
\* generateSlots leaves them
InitAc3 ==
    /\ grid \in HelperPuzzles
    /\ words \in WordLists
    /\ isNumberEntryMode = FALSE
    /\ isLetterEntryMode = FALSE
    /\ isDragMode = FALSE
    /\ isDragging = FALSE
    /\ toggleToBlack = TRUE
    /\ wordLengthCache = cacheWordsByLength(words)
    /\ letterFrequencies = calculateLetterFrequencies(words)
    /\ slots = identifySlots(grid, 0, <<>>)
    /\ constraints = generateConstraints(slots)
    /\ cellContents = buildCellContents(grid)
    /\ domains = setupDomains(slots, cellContents, wordLengthCache)
    /\ solution = EmptyObject
    /\ recursiveCalls = 0
    /\ isSolving = TRUE
    /\ buttonDisabled = TRUE
    /\ status = "Solving"
    /\ pc = "ac3"
    /\ queue = initialQueue(constraints)
    /\ ac3Success = FALSE
    /\ assignment = EmptyObject
    /\ cache = EmptyObject
    /\ stack = <<>>
    /\ mode = "none"
    /\ retval = FALSE
    /\ returned = [entry |-> <<>>, pruned |-> FALSE]
    /\ lastInferences = [failed |-> FALSE, inferences |-> <<>>]
    /\ activeSolves = 1
    /\ busyAlerts = FALSE
    /\ acrossDisplay = <<>>
    /\ downDisplay = <<>>
    /\ solutions = <<>>
    /\ cancel = FALSE
    /\ undoStack = <<>>
    /\ redoStack = <<>>
    /\ currentMode = "default"
    /\ tableCells = <<>>

\* one iteration of the while loop of ac3 on the arc at any place of the work
\* set, or its return true
Ac3StepAnyOrder ==
    /\ pc = "ac3"
    /\ IF Len(queue) = 0
       THEN /\ ac3Success' = TRUE
            /\ pc' = "ac3done"
            /\ UNCHANGED <<queue, domains>>
       ELSE \E k \in 1..Len(queue) :
            LET var1 == queue[k][1]
                var2 == queue[k][2]
                revised == reviseChanged(domains, constraints, var1, var2)
                newDomains == revise(domains, constraints, var1, var2)
            IN /\ domains' = newDomains
               /\ IF revised /\ wipedOut(newDomains, var1)
                  THEN /\ ac3Success' = FALSE
                       /\ pc' = "ac3done"
                       /\ queue' = deleteArc(queue, k)
                  ELSE /\ queue' = afterRevise(deleteArc(queue, k), constraints,
                                               var1, var2, revised)
                       /\ UNCHANGED <<ac3Success, pc>>
    /\ UNCHANGED <<grid, editorVars, dictVars, slots, constraints, cellContents, solution,
                   recursiveCalls, isSolving, buttonDisabled, status, searchVars,
                   activeSolves, busyAlerts, displayVars, solutions, cancel, uiVars>>

SpecAc3Order == InitAc3 /\ [][Ac3StepAnyOrder]_vars

-----------------------------------------------------------------------------
(* Solves of grids whose numbers do not rise in reading order *)

ReportPuzzles ==
    { <<<<"3", "A", "1">>, <<"A", "#", "A">>, <<"2", "B", " ">>>>,
      <<<<"2", "A", " ">>, <<"#", "#", "#">>, <<"1", "A", " ">>>>,
      <<<<"2", "A", "1">>, <<"#", "#", "A">>, <<"#", "#", " ">>>> }

InitReport ==
    /\ grid \in ReportPuzzles
    /\ words \in WordLists
    /\ Constructed

SpecReport == InitReport /\ [][Next]_vars

-----------------------------------------------------------------------------
(* The Solver class of js/solver.js: findAllSolutions and backtrack, which   *)
(* stores every solution it reaches, up to MAX_SOLUTIONS.  Its generateSlots,*)
(* generateConstraints, setupDomains and selectUnassignedVariable compute    *)
(* what those of script.js compute; isConsistent and orderDomainValues are   *)
(* its own.                                                                 *)

\* Solver constructor: this.MAX_SOLUTIONS
MAX_SOLUTIONS == 100

\* countConstrainingVariables
countConstrainingVariables(cons, dom, variable, word) ==
    LET nbrs == neighborsOf(cons, variable)
        eliminated(neighbor) ==
            LET overlaps == Get(Get(cons, variable), neighbor)
                perOverlap[k \in 0..Len(overlaps)] ==
                    IF k = 0 THEN 0
                    ELSE perOverlap[k - 1]
                         + Len(Get(dom, neighbor))
                         - Len(SelectSeqBy(Get(dom, neighbor),
                               {w \in Range(Get(dom, neighbor)) :
                                   w[overlaps[k][2] + 1] = word[overlaps[k][1] + 1]}))
            IN perOverlap[Len(overlaps)]
        count[n \in 0..Len(nbrs)] ==
            IF n = 0 THEN 0 ELSE count[n - 1] + eliminated(nbrs[n])
    IN count[Len(nbrs)]

\* Solver.orderDomainValues, the sort: insert w into an array sorted by count
RECURSIVE insertByCount(_, _, _, _, _)
insertByCount(cons, dom, variable, sorted, w) ==
    IF sorted = <<>> THEN <<w>>
    ELSE IF countConstrainingVariables(cons, dom, variable, w)
              < countConstrainingVariables(cons, dom, variable, Head(sorted))
         THEN <<w>> \o sorted
         ELSE <<Head(sorted)>> \o insertByCount(cons, dom, variable, Tail(sorted), w)

\* Solver.orderDomainValues: a sorted copy of the domain, fewest eliminations first
Solver_orderDomainValues(cons, dom, variable) ==
    LET domain == Get(dom, variable)
        sorted[n \in 0..Len(domain)] ==
            IF n = 0 THEN <<>>
            ELSE insertByCount(cons, dom, variable, sorted[n - 1], domain[n])
    IN sorted[Len(domain)]

\* a slip: only the first neighbour is compared
Solver_isConsistent_FirstNeighbor(cons, variable, word, asg) ==
    \A n \in 1..Len(neighborsOf(cons, variable)) :
        (n = 1 /\ neighborsOf(cons, variable)[n] \in DOMAIN asg) =>
            wordsMatch(cons, variable, word, neighborsOf(cons, variable)[n],
                       asg[neighborsOf(cons, variable)[n]])

\* Solver.isConsistent: word agrees with every assigned neighbour at every overlap
Solver_isConsistent(cons, variable, word, asg) ==
    \A neighbor \in Range(neighborsOf(cons, variable)) :
        neighbor \in DOMAIN asg =>
            wordsMatch(cons, variable, word, neighbor, asg[neighbor])

\* five words of length 2 for three slots of length 2 apart from each other:
\* 125 complete assignments
CapPuzzle == <<<<"1", " ">>, <<"#", "#">>, <<"2", " ">>, <<"#", "#">>, <<"3", " ">>>>

CapWords == << <<"A", "A">>, <<"A", "B">>, <<"B", "A">>, <<"B", "B">>, <<"C", "A">> >>

\* crossing slots, and a grid with no slot
CollectPuzzles ==
    { <<<<"1", "A", "2">>, <<"A", "#", "A">>, <<"3", "B", " ">>>>,
      <<<<"1", " ", "2">>, <<" ", "#", "A">>, <<"3", " ", " ">>>>,
      <<<<"1", " ", " ">>, <<" ", "#", "#">>, <<" ", "#", "#">>>>,
      <<<<"#", "#">>, <<"#", "#">>>> }

InitCollect ==
    /\ \/ grid = CapPuzzle /\ words = CapWords
       \/ grid \in CollectPuzzles /\ words \in WordLists
    /\ Constructed

\* findAllSolutions up to the call backtrack({}), or its catch when initialize throws
FindAllSolutions ==
    /\ pc \in {"idle", "collected"}
    /\ slots' = identifySlots(grid, 0, <<>>)
    /\ IF Len(slots') = 0
       THEN /\ pc' = "collected"
            /\ retval' = <<>>
            /\ UNCHANGED <<constraints, domains, cellContents, solutions, recursiveCalls,
                           assignment, stack, mode>>
       ELSE /\ constraints' = generateConstraints(slots')
            /\ cellContents' = buildCellContents(grid)
            /\ domains' = setupDomains(slots', cellContents', wordLengthCache)
            /\ solutions' = <<>>
            /\ recursiveCalls' = 0
            /\ assignment' = EmptyObject
            /\ stack' = <<>>
            /\ mode' = "call"
            /\ retval' = FALSE
            /\ pc' = "collect"
    /\ UNCHANGED <<grid, editorVars, dictVars, solution, isSolving, buttonDisabled, status,
                   queue, ac3Success, cache, returned, lastInferences, activeSolves,
                   busyAlerts, displayVars, cancel, uiVars>>

\* entry of backtrack(assignment) up to the for loop
CollectCall ==
    /\ pc = "collect"
    /\ mode = "call"
    /\ IF Cardinality(DOMAIN assignment) = Len(slots)
       THEN /\ solutions' = Append(solutions, assignment)
            /\ mode' = "ret"
            /\ UNCHANGED stack
       ELSE /\ UNCHANGED solutions
            /\ LET candidates == selectUnassignedVariable(domains, constraints, assignment)
               IN IF candidates = {}
                  THEN /\ mode' = "ret"
                       /\ UNCHANGED stack
                  ELSE \E varToAssign \in candidates :
                          /\ stack' = Append(stack,
                                [varToAssign |-> varToAssign,
                                 orderedValues |-> Solver_orderDomainValues(
                                                       constraints, domains, varToAssign),
                                 next |-> 1])
                          /\ mode' = "loop"
    /\ UNCHANGED <<grid, editorVars, dictVars, solverVars, solution, recursiveCalls, isSolving,
                   buttonDisabled, status, pc, queue, ac3Success, assignment, cache, retval,
                   returned, lastInferences, activeSolves, busyAlerts, displayVars, cancel, uiVars>>

\* the for loop of the innermost frame: the next value up to the recursive
\* call, or the end of the loop
CollectTry ==
    /\ pc = "collect"
    /\ mode = "loop"
    /\ LET top == stack[Len(stack)]
           rest == SubSeq(stack, 1, Len(stack) - 1)
       IN IF top.next > Len(top.orderedValues)
          THEN /\ stack' = rest
               /\ mode' = "ret"
               /\ UNCHANGED <<assignment, recursiveCalls>>
          ELSE LET value == top.orderedValues[top.next]
               IN IF Solver_isConsistent(constraints, top.varToAssign, value, assignment)
                  THEN /\ assignment' = Assign(assignment, top.varToAssign, value)
                       /\ recursiveCalls' = recursiveCalls + 1
                       /\ mode' = "call"
                       /\ UNCHANGED stack
                  ELSE /\ stack' = Append(rest, [top EXCEPT !.next = @ + 1])
                       /\ UNCHANGED <<assignment, recursiveCalls, mode>>
    /\ UNCHANGED <<grid, editorVars, dictVars, solverVars, solution, isSolving,
                   buttonDisabled, status, pc, queue, ac3Success, cache, retval,
                   returned, lastInferences, activeSolves, busyAlerts, displayVars, solutions, cancel, uiVars>>

\* a slip: the limit is tested one solution late
limitReached_Late(sols) == Len(sols) > MAX_SOLUTIONS

\* backtrack: this.solutions.length >= this.MAX_SOLUTIONS
limitReached(sols) == Len(sols) >= MAX_SOLUTIONS

\* a call of backtrack returned: into the loop of the calling frame, or into
\* findAllSolutions, which returns this.solutions
CollectReturn ==
    /\ pc = "collect"
    /\ mode = "ret"
    /\ IF Len(stack) = 0
       THEN /\ pc' = "collected"
            /\ retval' = solutions
            /\ mode' = "none"
            /\ UNCHANGED <<assignment, stack>>
       ELSE LET top == stack[Len(stack)]
                rest == SubSeq(stack, 1, Len(stack) - 1)
            IN /\ IF limitReached(solutions)
                  THEN /\ stack' = rest
                       /\ UNCHANGED <<assignment, mode>>
                  ELSE /\ assignment' = Unassign(assignment, top.varToAssign)
                       /\ stack' = Append(rest, [top EXCEPT !.next = @ + 1])
                       /\ mode' = "loop"
               /\ UNCHANGED <<pc, retval>>
    /\ UNCHANGED <<grid, editorVars, dictVars, solverVars, solution, recursiveCalls, isSolving,
                   buttonDisabled, status, queue, ac3Success, cache, returned,
                   lastInferences, activeSolves, busyAlerts, displayVars, solutions, cancel, uiVars>>

NextCollect ==
    \/ FindAllSolutions
    \/ CollectCall
    \/ CollectTry
    \/ CollectReturn

SpecCollect == InitCollect /\ [][NextCollect]_vars

-----------------------------------------------------------------------------
(* A solve with a cancel signal raised by the caller before the search is    *)
(* entered.  No method of the class reads such a signal.                     *)

RaiseCancel ==
    /\ pc \in {"randomize", "ac3", "ac3done"}
    /\ ~cancel
    /\ cancel' = TRUE
    /\ UNCHANGED <<grid, editorVars, dictVars, solverVars, solution, recursiveCalls, isSolving,
                   buttonDisabled, status, pc, queue, ac3Success, searchVars, activeSolves,
                   busyAlerts, displayVars, solutions, uiVars>>

NextCancel == Next \/ RaiseCancel

SpecCancel == Init /\ [][NextCancel]_vars

-----------------------------------------------------------------------------
(* Solving again after the letters of the solution were entered into the     *)
(* grid: letter entry (cellClicked in letter entry mode) on every cell of    *)
(* every slot that holds no number, which would be lost with its slot        *)

\* a slip: the return of the letter entry branch is missing and the default
\* toggle blackens the cell
enterLetter_ThenToggle(g, pos, letter) == setCell(g, pos[1], pos[2], Block)

\* cellClicked in letter entry mode: this.grid[row][col] = upperLetter
enterLetter(g, pos, letter) == setCell(g, pos[1], pos[2], letter)

\* the grid after the letters of sol were entered, slot by slot, into the
\* cells that hold no number
enterSolution(g, sl, sol) ==
    LET enterWord(h, positions, word) ==
            LET upTo[i \in 0..Len(positions)] ==
                    IF i = 0 THEN h
                    ELSE IF IsNumber(Cell(h, positions[i][1], positions[i][2]))
                         THEN upTo[i - 1]
                         ELSE enterLetter(upTo[i - 1], positions[i], word[i])
            IN upTo[Len(positions)]
        slotsUpTo[n \in 0..Len(sl)] ==
            IF n = 0 THEN g ELSE enterWord(slotsUpTo[n - 1], sl[n][2], sol[sl[n][1]])
    IN slotsUpTo[Len(sl)]

\* the user enters the displayed solution into the grid
WriteSolution ==
    /\ pc = "idle"
    /\ status = "Solved"
    /\ DOMAIN solution = KeySet(slots)
    /\ grid' = enterSolution(grid, slots, solution)
    /\ grid' # grid
    /\ UNCHANGED <<editorVars, solveVars>>

\* grids in which every cell that is no Block lies in a slot, each with a cell
\* left to fill
ResolvePuzzles ==
    { <<<<"1", "A", "2">>, <<"A", "#", "A">>, <<"3", "B", " ">>>>,
      <<<<"1", "A", " ">>, <<"A", "#", "#">>, <<" ", "#", "#">>>>,
      <<<<"1", "A", " ">>, <<"#", "#", "#">>, <<"2", "B", " ">>>>,
      <<<<"1", " ">>, <<"#", "#">>>> }

InitResolve ==
    /\ grid \in ResolvePuzzles
    /\ words \in WordLists
    /\ Constructed

NextResolve == Next \/ WriteSolution

SpecResolve == InitResolve /\ [][NextResolve]_vars

-----------------------------------------------------------------------------
(* DataManager (js/data.js): the dictionary and its two caches under       *)
(* addWord, removeWord, editWord and importWordList.  A string the user    *)
(* types is the sequence of its characters.                                *)

\* String.prototype.trim
RECURSIVE trimStart(_)
trimStart(s) == IF s # <<>> /\ Head(s) = Blank THEN trimStart(Tail(s)) ELSE s

RECURSIVE trimEnd(_)
trimEnd(s) ==
    IF s # <<>> /\ s[Len(s)] = Blank THEN trimEnd(SubSeq(s, 1, Len(s) - 1)) ELSE s

trim(s) == trimEnd(trimStart(s))

\* String.prototype.toUpperCase
upperCase(s) == [i \in 1..Len(s) |-> toUpperCase(s[i])]

\* /^[A-Z]+$/.test(word)
isAlphabetic(word) == Len(word) >= 1 /\ \A i \in 1..Len(word) : IsLetter(word[i])

\* array.indexOf(x) as a 1-based index, 0 for -1
indexOf(arr, x) ==
    IF x \in Range(arr)
    THEN CHOOSE i \in 1..Len(arr) : arr[i] = x /\ \A j \in 1..i - 1 : arr[j] # x
    ELSE 0

\* array.splice(index, 1)
splice(arr, i) == SubSeq(arr, 1, i - 1) \o SubSeq(arr, i + 1, Len(arr))

\* the three fields of a DataManager
DataOf(ws, wlc, lf) == [words |-> ws, wordLengthCache |-> wlc, letterFrequencies |-> lf]

\* the result of a call: what it returned, the alert it showed and the fields it left
Returned(ok, alert, dm) == [ok |-> ok, alert |-> alert, dm |-> dm]

\* wordLengthCache[length].push(upperWord), creating the array when it is missing
pushByLength(wlc, upperWord) ==
    [len \in DOMAIN wlc \cup {Len(upperWord)} |->
        IF len = Len(upperWord)
        THEN Append(IF len \in DOMAIN wlc THEN wlc[len] ELSE <<>>, upperWord)
        ELSE wlc[len]]

\* for (const char of upperWord) letterFrequencies[char]++, from 0 when missing
RECURSIVE countLetters(_, _)
countLetters(lf, upperWord) ==
    IF upperWord = <<>> THEN lf
    ELSE countLetters([ch \in DOMAIN lf \cup {Head(upperWord)} |->
                          (IF ch \in DOMAIN lf THEN lf[ch] ELSE 0)
                          + (IF ch = Head(upperWord) THEN 1 ELSE 0)],
                      Tail(upperWord))

\* addWord
addWord(dm, word) ==
    With(upperCase(trim(word)), LAMBDA upperWord :
        IF ~isAlphabetic(upperWord) THEN Returned(FALSE, "InvalidWord", dm)
        ELSE IF upperWord \in Range(dm.words) THEN Returned(FALSE, "Duplicate", dm)
        ELSE Returned(TRUE, "",
                      DataOf(Append(dm.words, upperWord),
                             pushByLength(dm.wordLengthCache, upperWord),
                             countLetters(dm.letterFrequencies, upperWord))))

\* lengthCache.splice(lengthCache.indexOf(upperWord), 1) when both exist
spliceByLength(wlc, upperWord) ==
    [len \in DOMAIN wlc |->
        IF len = Len(upperWord) /\ indexOf(wlc[len], upperWord) # 0
        THEN splice(wlc[len], indexOf(wlc[len], upperWord))
        ELSE wlc[len]]

\* for (const char of upperWord): decrement a count that is there and not 0,
\* delete the key when it reaches 0
RECURSIVE uncountLetters(_, _)
uncountLetters(lf, upperWord) ==
    IF upperWord = <<>> THEN lf
    ELSE uncountLetters(
            IF Head(upperWord) \in DOMAIN lf /\ lf[Head(upperWord)] # 0
            THEN [ch \in DOMAIN lf \ (IF lf[Head(upperWord)] = 1 THEN {Head(upperWord)} ELSE {}) |->
                     IF ch = Head(upperWord) THEN lf[ch] - 1 ELSE lf[ch]]
            ELSE lf,
            Tail(upperWord))

\* a slip: the length cache is left as it was
removeWord_KeepCache(dm, word) ==
    With(upperCase(trim(word)), LAMBDA upperWord :
        IF indexOf(dm.words, upperWord) = 0 THEN Returned(FALSE, "NotFound", dm)
        ELSE Returned(TRUE, "",
                      DataOf(splice(dm.words, indexOf(dm.words, upperWord)),
                             dm.wordLengthCache,
                             uncountLetters(dm.letterFrequencies, upperWord))))

\* removeWord
removeWord(dm, word) ==
    With(upperCase(trim(word)), LAMBDA upperWord :
        IF indexOf(dm.words, upperWord) = 0 THEN Returned(FALSE, "NotFound", dm)
        ELSE Returned(TRUE, "",
                      DataOf(splice(dm.words, indexOf(dm.words, upperWord)),
                             spliceByLength(dm.wordLengthCache, upperWord),
                             uncountLetters(dm.letterFrequencies, upperWord))))

\* editWord: the three tests, then removeWord and addWord
editWord(dm, oldWord, newWord) ==
    With(<<upperCase(trim(oldWord)), upperCase(trim(newWord))>>, LAMBDA upper :
        IF indexOf(dm.words, upper[1]) = 0 THEN Returned(FALSE, "NotFound", dm)
        ELSE IF ~isAlphabetic(upper[2]) THEN Returned(FALSE, "InvalidWord", dm)
        ELSE IF upper[2] \in Range(dm.words) THEN Returned(FALSE, "Duplicate", dm)
        ELSE Returned(TRUE, "", addWord(removeWord(dm, upper[1]).dm, upper[2]).dm))

\* importedWords.forEach(word => this.addWord(word))
RECURSIVE addEach(_, _)
addEach(dm, importedWords) ==
    IF importedWords = <<>> THEN dm
    ELSE addEach(addWord(dm, Head(importedWords)).dm, Tail(importedWords))

\* importWordList: reader.onerror, or reader.onload with JSON.parse, the array
\* test, the validation loop, and then the reset and the additions
importWordList(dm, file) ==
    IF file.kind # "array" THEN Returned(FALSE, "ImportError", dm)
    ELSE IF \E i \in 1..Len(file.items) : ~isAlphabetic(upperCase(trim(file.items[i])))
    THEN Returned(FALSE, "ImportError", dm)
    ELSE Returned(TRUE, "", addEach(DataOf(<<>>, EmptyObject, EmptyObject), file.items))

\* longest array in an imported file
MaxImport == 2

\* what the user may type as a word: capitals, small letters, padding, a
\* digit, the empty string
WordInputs ==
    { <<"A">>, <<"a", "b">>, <<Blank, "B", Blank>>, <<"B", "A">>, <<"A", "A">>,
      <<"A", "7">>, <<Blank>>, <<>> }

\* the files the user may choose: one that cannot be read, one that is not
\* JSON, JSON that is not an array, and arrays of strings
ImportFiles ==
    {[kind |-> k, items |-> <<>>] : k \in {"unreadable", "notJSON", "notArray"}}
    \cup UNION {{[kind |-> "array", items |-> it] : it \in [1..n -> WordInputs]} :
                n \in 0..MaxImport}

\* the word lists loadWords can leave: the lines of Words.txt, which may repeat
DataWordLists ==
    { <<>>, << <<"A">>, <<"A", "B">> >>, << <<"A">>, <<"A">> >>,
      << <<"B", "A">>, <<"A">>, <<"B", "A">> >> }

\* the DataManager constructor followed by loadWords
InitData ==
    /\ grid = <<>>
    /\ words \in DataWordLists
    /\ Constructed

\* the fields of the DataManager of the current state
Data == DataOf(words, wordLengthCache, letterFrequencies)

\* a call returns: its fields, its return value, and the alert of a rejection
Return(r) ==
    /\ words' = r.dm.words
    /\ wordLengthCache' = r.dm.wordLengthCache
    /\ letterFrequencies' = r.dm.letterFrequencies
    /\ retval' = r.ok
    /\ status' = IF r.ok THEN status ELSE r.alert
    /\ UNCHANGED <<grid, editorVars, solverVars, solution, recursiveCalls, isSolving,
                   buttonDisabled, queue, ac3Success, assignment, cache, stack, mode,
                   returned, lastInferences, activeSolves, busyAlerts, displayVars,
                   solutions, cancel, uiVars>>

AddWord ==
    /\ \E word \in WordInputs : \E r \in {addWord(Data, word)} : Return(r)
    /\ pc' = "addWord"

RemoveWord ==
    /\ \E word \in WordInputs : \E r \in {removeWord(Data, word)} : Return(r)
    /\ pc' = "removeWord"

EditWord ==
    /\ \E oldWord, newWord \in WordInputs :
          \E r \in {editWord(Data, oldWord, newWord)} : Return(r)
    /\ pc' = "editWord"

ImportWordList ==
    /\ \E file \in ImportFiles : \E r \in {importWordList(Data, file)} : Return(r)
    /\ pc' = "importWordList"

NextData == AddWord \/ RemoveWord \/ EditWord \/ ImportWordList

SpecData == InitData /\ [][NextData]_vars

-----------------------------------------------------------------------------
(* UIManager (js/ui.js): the grid of the DataManager under inline edits,   *)
(* block toggles by drop, undo and redo, and under the operations that     *)
(* replace the grid.  Of the rendered table the model keeps, per cell,     *)
(* what decides which events can reach a handler.                          *)

\* the empty cell of generateGrid and the value of a cleared cell
Dot == "."

NoText == ""

\* the limits of generateGrid
MinGridSize == 5

MaxGridSize == 20

\* most actions kept on the undo stack
MaxHistory == 2

\* DataManager.generateGrid
emptyGrid(rows, cols) == [r \in 1..rows |-> [c \in 1..cols |-> Dot]]

\* DataManager.loadPredefinedPuzzle: predefinedPuzzles
predefinedPuzzles(difficulty) ==
    CASE difficulty = "Easy" ->
          << <<"1", ".", ".", "#", ".", ".", ".", ".", ".", "2">>,
             <<".", ".", ".", "#", ".", ".", ".", "#", ".", ".">>,
             <<".", ".", ".", "#", ".", ".", ".", "#", ".", ".">>,
             <<"#", "#", "#", "#", "#", "#", "#", "#", "#", "#">>,
             <<"3", ".", ".", "#", ".", ".", ".", "#", ".", "4">>,
             <<".", ".", ".", "#", ".", ".", ".", "#", ".", ".">>,
             <<".", ".", ".", "#", ".", ".", ".", "#", ".", ".">>,
             <<"#", "#", "#", "#", "#", "#", "#", "#", "#", "#">>,
             <<"5", ".", ".", "#", ".", ".", ".", "#", ".", "6">>,
             <<".", ".", ".", "#", ".", ".", ".", "#", ".", ".">> >>
      [] difficulty = "Medium" ->
          << <<"1", ".", ".", ".", ".", "#", ".", ".", ".", "2">>,
             <<".", "#", "#", "#", ".", ".", ".", "#", "#", ".">>,
             <<".", ".", ".", ".", ".", "#", ".", ".", ".", ".">>,
             <<"#", "#", "#", "#", "#", "#", "#", "#", "#", "#">>,
             <<"3", ".", ".", ".", ".", ".", ".", ".", ".", "4">>,
             <<".", ".", ".", ".", ".", "#", ".", ".", ".", ".">>,
             <<".", "#", "#", "#", ".", ".", ".", "#", "#", ".">>,
             <<".", ".", ".", ".", ".", "#", ".", ".", ".", ".">>,
             <<"5", ".", ".", ".", ".", "#", ".", ".", ".", "6">>,
             <<".", "#", "#", "#", ".", ".", ".", "#", "#", ".">> >>
      [] difficulty = "Hard" ->
          << <<"1", ".", "#", ".", ".", ".", "#", ".", "2", ".">>,
             <<".", ".", "#", ".", "#", ".", "#", ".", ".", ".">>,
             <<"#", "#", "#", "#", "#", "#", "#", "#", "#", "#">>,
             <<".", ".", "#", ".", "#", ".", "#", ".", ".", ".">>,
             <<"3", ".", "#", ".", ".", ".", "#", ".", "4", ".">>,
             <<".", ".", "#", "#", "#", "#", "#", "#", ".", ".">>,
             <<"#", "#", "#", ".", "#", ".", "#", "#", "#", "#">>,
             <<".", ".", "#", ".", "#", ".", "#", ".", ".", ".">>,
             <<"5", ".", "#", ".", ".", ".", "#", ".", "6", ".">>,
             <<".", ".", "#", ".", "#", ".", "#", ".", ".", ".">> >>

\* renderGrid: one td per cell of the rows, as many per row as the first row
\* has; its class, its contentEditable, whether it listens to input and
\* whether it carries the drag listeners
renderGrid(g, currentModeNow) ==
    [pos \in {<<r, c>> : r \in 0..Rows(g) - 1,
                         c \in 0..(IF g = <<>> THEN 0 ELSE Cols(g)) - 1} |->
        With(Cell(g, pos[1], pos[2]), LAMBDA cellValue :
            [editableCell |-> ~(cellValue = Block \/ IsNumber(cellValue) \/ IsLetter(cellValue)),
             contentEditable |-> ~(cellValue = Block \/ IsNumber(cellValue) \/ IsLetter(cellValue)),
             input |-> cellValue # Block,
             draggable |-> cellValue # Block /\ currentModeNow = "drag"])]

\* enableLetterEntryMode / disableLetterEntryMode
setContentEditable(tc, value) ==
    [pos \in DOMAIN tc |->
        IF tc[pos].editableCell THEN [tc[pos] EXCEPT !.contentEditable = value] ELSE tc[pos]]

\* enableDragMode
enableDragMode(tc) ==
    [pos \in DOMAIN tc |->
        IF tc[pos].editableCell THEN [tc[pos] EXCEPT !.draggable = TRUE] ELSE tc[pos]]

\* disableDragMode
disableDragMode(tc) ==
    [pos \in DOMAIN tc |->
        IF tc[pos].editableCell /\ tc[pos].draggable
        THEN [tc[pos] EXCEPT !.draggable = FALSE] ELSE tc[pos]]

\* this.dataManager.grid[row][col] = value: a column one past the end of the
\* row lengthens the row; a row past the end of the grid throws
assignable(g, row, col) == row < Rows(g)

assignCell(g, row, col, value) ==
    IF col < Len(g[row + 1]) THEN setCell(g, row, col, value)
    ELSE [g EXCEPT ![row + 1] = Append(g[row + 1], value)]

\* the fields undo and redo work on
UiOf(g, undo, redo) == [grid |-> g, undoStack |-> undo, redoStack |-> redo]

\* array.pop(): the array left
popped(stk) == SubSeq(stk, 1, Len(stk) - 1)

\* performUndo with applyReverseAction; when the assignment throws, the
\* action is popped and nothing else is done
performUndo(ui) ==
    IF Len(ui.undoStack) = 0 THEN ui
    ELSE With(ui.undoStack[Len(ui.undoStack)], LAMBDA action :
            IF ~assignable(ui.grid, action.row, action.col)
            THEN UiOf(ui.grid, popped(ui.undoStack), ui.redoStack)
            ELSE UiOf(assignCell(ui.grid, action.row, action.col, action.oldValue),
                      popped(ui.undoStack), Append(ui.redoStack, action)))

\* performRedo with applyAction
performRedo(ui) ==
    IF Len(ui.redoStack) = 0 THEN ui
    ELSE With(ui.redoStack[Len(ui.redoStack)], LAMBDA action :
            IF ~assignable(ui.grid, action.row, action.col)
            THEN UiOf(ui.grid, ui.undoStack, popped(ui.redoStack))
            ELSE UiOf(assignCell(ui.grid, action.row, action.col, action.newValue),
                      Append(ui.undoStack, action), popped(ui.redoStack)))

\* handleCellInput: the value kept of the text of the cell
inputValue(textContent) ==
    With(upperCase(trim(textContent)), LAMBDA typed :
        IF typed # <<>> /\ IsLetter(typed[Len(typed)]) THEN typed[Len(typed)] ELSE NoText)

\* what the text of a cell may be after the user typed into it
InputTexts == { <<"A", "b", Blank>>, <<"7">> }

\* the cells the user works on
TargetCells == { <<0, 1>>, <<5, 5>> }

\* the row and column counts the user may ask generateGrid for
GridSizes == {MinGridSize - 1, MinGridSize, MinGridSize + 1, MaxGridSize + 1}

\* the files the user may choose for importGrid: one that cannot be read, one
\* that is not JSON, JSON without "grid" or "slots", and exported grids
GridFiles ==
    {[kind |-> k, grid |-> <<>>] : k \in {"unreadable", "notJSON", "incomplete"}}
    \cup {[kind |-> "exported", grid |-> g] :
             g \in { << <<Dot, Dot>> >>, emptyGrid(MinGridSize + 1, MinGridSize + 1) }}

\* the constructors of DataManager and UIManager, and Main.init
InitUi ==
    /\ grid = <<>>
    /\ words = <<>>
    /\ Constructed

Ui == UiOf(grid, undoStack, redoStack)

\* this.dataManager.grid[row][col]
At0(g, pos) == Cell(g, pos[1], pos[2])

solverState == <<editorVars, dictVars, solverVars, solution, recursiveCalls, isSolving,
                 buttonDisabled, status, pc, queue, ac3Success, searchVars, activeSolves,
                 busyAlerts, solutions, cancel>>

HandleCellInput ==
    /\ \E pos \in DOMAIN tableCells \cap TargetCells : \E textContent \in InputTexts :
          /\ tableCells[pos].input /\ tableCells[pos].contentEditable
          /\ \E newValue \in {inputValue(textContent)} : \E oldValue \in {At0(grid, pos)} :
                /\ grid' = assignCell(grid, pos[1], pos[2], newValue)
                /\ IF oldValue # newValue
                   THEN /\ Len(undoStack) < MaxHistory
                        /\ undoStack' = Append(undoStack, [type |-> "edit", row |-> pos[1],
                                                            col |-> pos[2], oldValue |-> oldValue,
                                                            newValue |-> newValue])
                        /\ redoStack' = <<>>
                   ELSE UNCHANGED <<undoStack, redoStack>>
    /\ UNCHANGED <<currentMode, tableCells, displayVars, solverState>>

HandleDragStart ==
    /\ \E pos \in DOMAIN tableCells \cap TargetCells : tableCells[pos].draggable
    /\ isDragging' = TRUE
    /\ UNCHANGED <<grid, isNumberEntryMode, isLetterEntryMode, isDragMode, toggleToBlack,
                   dictVars, solverVars, solution, recursiveCalls, isSolving,
                   buttonDisabled, status, pc, queue, ac3Success, searchVars, activeSolves, busyAlerts,
                   solutions, cancel, displayVars, uiVars>>

HandleDrop ==
    /\ Len(undoStack) < MaxHistory
    /\ \E pos \in DOMAIN tableCells \cap TargetCells :
          /\ tableCells[pos].draggable
          /\ \E currentValue \in {At0(grid, pos)} :
                /\ grid' = assignCell(grid, pos[1], pos[2],
                                      IF currentValue = Block THEN Dot ELSE Block)
                /\ tableCells' = [tableCells EXCEPT ![pos].contentEditable =
                                     currentValue = Block /\ currentMode = "letter"]
                /\ undoStack' = Append(undoStack, [type |-> "blockToggle", row |-> pos[1],
                                                    col |-> pos[2], oldValue |-> currentValue,
                                                    newValue |-> IF currentValue = Block
                                                                 THEN Dot ELSE Block])
    /\ redoStack' = <<>>
    /\ isDragging' = FALSE
    /\ UNCHANGED <<isNumberEntryMode, isLetterEntryMode, isDragMode, toggleToBlack,
                   dictVars, solverVars, solution, recursiveCalls, isSolving,
                   buttonDisabled, status, pc, queue, ac3Success, searchVars, activeSolves, busyAlerts,
                   solutions, cancel, displayVars, currentMode>>

PerformUndo ==
    /\ \E ui \in {performUndo(Ui)} :
          grid' = ui.grid /\ undoStack' = ui.undoStack /\ redoStack' = ui.redoStack
    /\ UNCHANGED <<currentMode, tableCells, displayVars, solverState>>

PerformRedo ==
    /\ \E ui \in {performRedo(Ui)} :
          grid' = ui.grid /\ undoStack' = ui.undoStack /\ redoStack' = ui.redoStack
    /\ UNCHANGED <<currentMode, tableCells, displayVars, solverState>>

ToggleNumberEntryMode ==
    /\ currentMode' = "number"
    /\ tableCells' = disableDragMode(setContentEditable(tableCells, FALSE))
    /\ UNCHANGED <<grid, undoStack, redoStack, displayVars, solverState>>

ToggleLetterEntryMode ==
    /\ currentMode' = "letter"
    /\ tableCells' = disableDragMode(setContentEditable(tableCells, TRUE))
    /\ UNCHANGED <<grid, undoStack, redoStack, displayVars, solverState>>

ToggleDragMode ==
    /\ currentMode' = "drag"
    /\ tableCells' = setContentEditable(enableDragMode(tableCells), FALSE)
    /\ UNCHANGED <<grid, undoStack, redoStack, displayVars, solverState>>

\* generateGrid: the stacks are not written
GenerateGrid ==
    /\ \E rows, cols \in GridSizes :
          IF rows < MinGridSize \/ cols < MinGridSize \/ rows > MaxGridSize \/ cols > MaxGridSize
          THEN UNCHANGED <<grid, tableCells, displayVars>>
          ELSE /\ grid' = emptyGrid(rows, cols)
               /\ tableCells' = renderGrid(grid', currentMode)
               /\ acrossDisplay' = <<>>
               /\ downDisplay' = <<>>
    /\ UNCHANGED <<undoStack, redoStack, currentMode, solverState>>

\* handleLoadPredefinedPuzzle / loadPredefinedPuzzle: the stacks are not written
LoadPredefinedPuzzle ==
    /\ \E difficulty \in {"Easy", "Medium", "Hard"} :
          grid' = predefinedPuzzles(difficulty)
    /\ tableCells' = renderGrid(grid', currentMode)
    /\ acrossDisplay' = <<>>
    /\ downDisplay' = <<>>
    /\ UNCHANGED <<undoStack, redoStack, currentMode, solverState>>

\* importGrid: reader.onerror, or reader.onload
ImportGrid ==
    /\ \E file \in GridFiles :
          IF file.kind # "exported"
          THEN UNCHANGED <<grid, tableCells, undoStack, redoStack>>
          ELSE /\ grid' = file.grid
               /\ tableCells' = renderGrid(grid', currentMode)
               /\ undoStack' = <<>>
               /\ redoStack' = <<>>
    /\ UNCHANGED <<currentMode, displayVars, solverState>>

NextUi ==
    \/ HandleCellInput
    \/ HandleDragStart
    \/ HandleDrop
    \/ PerformUndo
    \/ PerformRedo
    \/ ToggleNumberEntryMode
    \/ ToggleLetterEntryMode
    \/ ToggleDragMode
    \/ GenerateGrid
    \/ LoadPredefinedPuzzle
    \/ ImportGrid

SpecUi == InitUi /\ [][NextUi]_vars

-----------------------------------------------------------------------------
(* A solve in which a statement of solveCrosswordThread throws: the catch   *)
(* of the thread reports the error through handleError and the thread ends. *)

\* the catch of solveCrosswordThread: the frames of the search are unwound,
\* the fields keep what the thread had written
ThreadThrows ==
    /\ pc \in {"thread", "randomize", "ac3", "ac3done", "search"}
    /\ status' = "Error"
    /\ pc' = "settled"
    /\ mode' = "none"
    /\ stack' = <<>>
    /\ queue' = <<>>
    /\ ac3Success' = FALSE
    /\ assignment' = EmptyObject
    /\ cache' = EmptyObject
    /\ retval' = FALSE
    /\ returned' = [entry |-> <<>>, pruned |-> FALSE]
    /\ lastInferences' = [failed |-> FALSE, inferences |-> <<>>]
    /\ UNCHANGED <<grid, editorVars, dictVars, solverVars, solution, recursiveCalls, isSolving,
                   buttonDisabled, activeSolves, busyAlerts, displayVars, solutions, cancel, uiVars>>

NextThrows == Next \/ ThreadThrows

\* longest word list of the solves that may throw
MaxThrowsWords == 3

\* grids for each outcome: solvable or not by the words, no slot, not rectangular
ThrowsPuzzles ==
    { <<<<"1", "A", "2">>, <<"A", "#", "A">>, <<"3", "B", " ">>>>,
      <<<<"1", "A", " ">>, <<"A", "#", "#">>, <<" ", "#", "#">>>>,
      <<<<"#", "#">>, <<"#", "#">>>>,
      <<<<"1", " ">>, <<"#", "#", "#">>>> }

InitThrows ==
    /\ grid \in ThrowsPuzzles
    /\ words \in {ws \in WordLists : Len(ws) <= MaxThrowsWords}
    /\ Constructed

\* the thread runs to its end, by its last statement or by its catch, and the
\* finally callback runs after it
LiveSpecThrows ==
    InitThrows /\ [][NextThrows]_vars /\ WF_vars(ThreadStep \/ ThreadThrows) /\ WF_vars(Finally)

-----------------------------------------------------------------------------
(* Solves of grids with two slots that do not cross, with short word lists *)

\* longest word list of these solves
MaxReuseWords == 2

\* two across slots apart: blank, with a letter entered in each, and of length 2
ReusePuzzles ==
    { <<<<"1", " ", " ">>, <<"#", "#", "#">>, <<"2", " ", " ">>>>,
      <<<<"1", "A", " ">>, <<"#", "#", "#">>, <<"2", "A", " ">>>>,
      <<<<"1", " ">>, <<"#", "#">>, <<"2", " ">>>> }

InitReuse ==
    /\ grid \in ReusePuzzles
    /\ words \in {ws \in WordLists : Len(ws) <= MaxReuseWords}
    /\ Constructed

SpecReuse == InitReuse /\ [][Next]_vars

-----------------------------------------------------------------------------
(* The properties *)

\* the cell of the grid at a position <<r, c>>
At(pos) == Cell(grid, pos[1], pos[2])

\* an assignment a solves the puzzle: it gives every slot a word of the slot's
\* length that keeps the pre-filled letters, and words that cross carry the same
\* letter in the shared cell
Solves(a) ==
    /\ DOMAIN a = KeySet(slots)
    /\ \A s \in KeySet(slots) : Len(a[s]) = Len(Get(slots, s))
    /\ \A s \in KeySet(slots) : \A i \in 1..Len(Get(slots, s)) :
          IsLetter(At(Get(slots, s)[i])) => a[s][i] = At(Get(slots, s)[i])
    /\ \A s, t \in KeySet(slots) :
          \A i \in 1..Len(Get(slots, s)) : \A j \in 1..Len(Get(slots, t)) :
              Get(slots, s)[i] = Get(slots, t)[j] => a[s][i] = a[t][j]

\* backtrackingSolve has just returned (any frame), resp. the outermost call has
SearchReturned == pc = "search" /\ mode = "ret"

OutermostReturned == SearchReturned /\ Len(stack) = 0

\* C1. Soundness: whenever backtrackingSolve returns true, the stored solution
\* gives every slot a word of the slot's length that agrees with the pre-filled
\* letters of its cells and with the words of the slots that cross it.
C1_Soundness == (SearchReturned /\ retval) => Solves(solution)

\* a solution of the four-slot cycle whose last crossing cell is pre-filled
C1_Witness ==
    /\ OutermostReturned /\ retval
    /\ Len(slots) = 4
    /\ <<2, 2>> \in DOMAIN cellContents

\* C2. Completeness: whatever the shuffles and tie-breaks, the outermost
\* backtrackingSolve returns true exactly if some assignment of dictionary
\* words to all slots meets the length, pre-filled-letter and overlap constraints.
C2_Completeness ==
    OutermostReturned =>
        (retval <=> \E a \in [KeySet(slots) -> Range(words)] : Solves(a))

\* a solution found after the search had to backtrack
C2_Witness == OutermostReturned /\ retval /\ recursiveCalls > Len(slots)

\* C3. Closed world: every word of the stored solution is a word of the loaded
\* word list.
C3_ClosedWorld == \A s \in DOMAIN solution : solution[s] \in Range(words)

\* a reported solution that uses two different words, on a grid with a
\* pre-filled letter
C3_Witness ==
    /\ status = "Solved"
    /\ Cardinality({solution[s] : s \in DOMAIN solution}) >= 2
    /\ \E p \in DOMAIN cellContents : cellContents[p] # "null"

Outcomes == {"Solved", "NoSolution", "NoSlots", "InvalidGrid"}

\* the positions of a solve that is still running
Running == {"thread", "randomize", "ac3", "ac3done", "search"}

\* C4. Termination: a solve that is running, wherever it is (before the slots
\* are built, in the loop of ac3, or in the search), finishes, with one of the
\* four outcomes; ac3 and the search lie on the way, so both end.
C4_Termination == (pc \in Running) ~> (pc = "settled" /\ status \in Outcomes)

\* a solve that finished after an exhausted search with backtracking
C4_Witness == pc = "settled" /\ status = "NoSolution" /\ recursiveCalls > 2

\* C5 as stated. On every return from backtrackingSolve, true or false, every
\* domain has the contents it had when that call was entered.
C5_RestoredOnEveryReturn == SearchReturned => domains = returned.entry

\* C5, amended. On every return of false from backtrackingSolve every domain has
\* the contents it had when that call was entered, and whenever a frame is about
\* to try its next candidate the domains are those of its entry.
C5_RestoredOnFailure ==
    /\ (SearchReturned /\ ~retval) => domains = returned.entry
    /\ (pc = "search" /\ mode = "loop") => domains = stack[Len(stack)].entry

\* a call returns false after forward checks under it had pruned domains
C5_Witness == SearchReturned /\ ~retval /\ returned.pruned

\* slots A and B cross, and the words w of A and w2 of B agree where they cross
Crossing(A, B) ==
    A # B /\ Range(Get(slots, A)) \cap Range(Get(slots, B)) # {}

Agree(A, w, B, w2) ==
    \A i \in 1..Len(Get(slots, A)) : \A j \in 1..Len(Get(slots, B)) :
        Get(slots, A)[i] = Get(slots, B)[j] => w[i] = w2[j]

\* the domain sizes when ac3 was entered (randomizeDomains only permutes)
EntrySize(s) == Len(Get(setupDomains(slots, cellContents, wordLengthCache), s))

\* C6. Arc consistency: whenever ac3 returns true, for every arc (A, B) and every
\* word w of domain[A] some word of domain[B] agrees with w at the overlap.
C6_ArcConsistent ==
    (pc = "ac3done" /\ ac3Success) =>
        \A A, B \in KeySet(slots) :
            Crossing(A, B) =>
                \A w \in Range(Get(domains, A)) :
                    \E w2 \in Range(Get(domains, B)) : Agree(A, w, B, w2)

\* ac3 returned true after it had removed words, with no domain left empty
C6_Witness ==
    /\ pc = "ac3done" /\ ac3Success
    /\ \E s \in KeySet(slots) : Len(Get(domains, s)) < EntrySize(s)
    /\ \A s \in KeySet(slots) : Len(Get(domains, s)) > 0

\* C7 as stated. ac3 returns true only if no slot has an empty domain when it
\* finishes.
C7_FailsOnAnyEmptyDomain ==
    (pc = "ac3done" /\ ac3Success) =>
        \A s \in KeySet(slots) : Len(Get(domains, s)) # 0

\* C7, amended. ac3 returns false exactly if it emptied a domain that was not
\* empty when it started; a domain that was empty from the start is not reported.
C7_FailsOnWipeOut ==
    (pc = "ac3done") =>
        (~ac3Success <=>
            \E s \in KeySet(slots) : EntrySize(s) > 0 /\ Len(Get(domains, s)) = 0)

\* ac3 returned true although a slot has an empty domain
C7_Witness ==
    /\ pc = "ac3done" /\ ac3Success
    /\ \E s \in KeySet(slots) : Len(Get(domains, s)) = 0

\* C8. AC-3 failure is not terminal: once ac3 has returned, true or false, the
\* next step starts backtrackingSolve, and the outcome reported when the search
\* ends is Solved if it returned true and NoSolution if it returned false.
C8_SearchAfterAc3 ==
    /\ [][pc = "ac3done" => (pc' = "search" /\ mode' = "call" /\ recursiveCalls' = 0)]_vars
    /\ [][(pc = "search" /\ pc' # "search") =>
            (pc' = "settled" /\ status' = IF retval THEN "Solved" ELSE "NoSolution")]_vars

\* the search has run to its end after ac3 returned false
C8_Witness == OutermostReturned /\ ~ac3Success

\* C9. Busy guard: at most one solve is in progress, and solveCrossword invoked
\* while isSolving is true starts no solve and leaves slots, constraints,
\* domains, solution and recursiveCalls as they were.
C9_BusyGuard ==
    /\ [](activeSolves <= 1)
    /\ [][(isSolving /\ SolveCrossword) =>
            UNCHANGED <<slots, constraints, domains, solution, recursiveCalls,
                        pc, isSolving, activeSolves>>]_vars

\* an invocation was refused while a solve that got as far as the search was
\* still in progress
C9_Witness == busyAlerts /\ isSolving /\ recursiveCalls > 0 /\ activeSolves = 1

\* the cell before the first cell of a slot, and the cell after its last
Before(name, positions) ==
    IF name[2] = "ACROSS"
    THEN <<positions[1][1], positions[1][2] - 1>>
    ELSE <<positions[1][1] - 1, positions[1][2]>>

After(name, positions) ==
    IF name[2] = "ACROSS"
    THEN <<positions[Len(positions)][1], positions[Len(positions)][2] + 1>>
    ELSE <<positions[Len(positions)][1] + 1, positions[Len(positions)][2]>>

InGrid(pos) == pos[1] \in 0..Rows(grid) - 1 /\ pos[2] \in 0..Cols(grid) - 1

BoundaryOrBlock(pos) == ~InGrid(pos) \/ At(pos) = Block

\* C10. Slot well-formedness: every slot starts at a numbered cell that carries
\* the slot's number and has the boundary or a Block before it, consists of the
\* contiguous cells from there up to the boundary or the next Block, has a
\* length from 2 to max(R, C), and contains no Block.
C10_SlotsWellFormed ==
    \A n \in 1..Len(slots) :
        LET name == slots[n][1]
            positions == slots[n][2]
        IN /\ Len(positions) >= 2
           /\ Len(positions) <= Max2(Rows(grid), Cols(grid))
           /\ \A i \in 1..Len(positions) : InGrid(positions[i]) /\ At(positions[i]) # Block
           /\ IsNumber(At(positions[1])) /\ name[1] = At(positions[1])
           /\ BoundaryOrBlock(Before(name, positions))
           /\ \A i \in 1..Len(positions) :
                positions[i] = IF name[2] = "ACROSS"
                               THEN <<positions[1][1], positions[1][2] + i - 1>>
                               ELSE <<positions[1][1] + i - 1, positions[1][2]>>
           /\ BoundaryOrBlock(After(name, positions))

\* an across slot that ends at a Block and a down slot, while a numbered cell
\* whose run has length 1 gave no slot
C10_Witness ==
    /\ \E n \in 1..Len(slots) :
          slots[n][1][2] = "ACROSS" /\ InGrid(After(slots[n][1], slots[n][2]))
    /\ \E n \in 1..Len(slots) : slots[n][1][2] = "DOWN"
    /\ \E r \in 0..Rows(grid) - 1 : \E c \in 0..Cols(grid) - 1 :
          /\ IsNumber(Cell(grid, r, c))
          /\ \A n \in 1..Len(slots) : slots[n][2][1] # <<r, c>>

\* this.constraints[A][B] exists, and the overlap pairs it holds
ConstraintExists(A, B) == Has(constraints, A) /\ Has(Get(constraints, A), B)

OverlapPairs(A, B) ==
    IF ConstraintExists(A, B) THEN Range(Get(Get(constraints, A), B)) ELSE {}

\* C11. Constraint symmetry: constraints[A][B] exists iff constraints[B][A]
\* exists and iff the slots A and B share a cell; (i, j) is in constraints[A][B]
\* iff (j, i) is in constraints[B][A], and iff position i of A and position j of
\* B are the same cell.  Only slots have constraints, and none with itself.
C11_ConstraintSymmetry ==
    /\ KeySet(constraints) \subseteq KeySet(slots)
    /\ \A A \in KeySet(constraints) :
          KeySet(Get(constraints, A)) \subseteq KeySet(slots) \ {A}
    /\ \A A, B \in KeySet(slots) :
          A # B =>
            /\ ConstraintExists(A, B) <=> ConstraintExists(B, A)
            /\ ConstraintExists(A, B) <=> Crossing(A, B)
            /\ \A i \in 0..Len(Get(slots, A)) - 1 : \A j \in 0..Len(Get(slots, B)) - 1 :
                  /\ <<i, j>> \in OverlapPairs(A, B) <=> <<j, i>> \in OverlapPairs(B, A)
                  /\ <<i, j>> \in OverlapPairs(A, B) <=>
                        Get(slots, A)[i + 1] = Get(slots, B)[j + 1]
            /\ \A o \in OverlapPairs(A, B) :
                  o[1] \in 0..Len(Get(slots, A)) - 1 /\ o[2] \in 0..Len(Get(slots, B)) - 1

\* three slots: one crosses the two others, away from its first cell, and the
\* two others do not cross
C11_Witness ==
    \E A, B, C \in KeySet(slots) :
        /\ <<2, 0>> \in OverlapPairs(A, B)
        /\ ConstraintExists(A, C)
        /\ B # C /\ ~ConstraintExists(B, C)

\* the loaded words that fit a slot: its length, and its pre-filled letters
Fits(w, positions) ==
    /\ Len(w) = Len(positions)
    /\ \A i \in 1..Len(positions) : IsLetter(At(positions[i])) => w[i] = At(positions[i])

\* C12. Initial domains: after setupDomains every slot has a domain entry, and
\* the domain of a slot holds exactly the loaded words of the slot's length that
\* carry the pre-filled letter at every pre-filled position, each once and in
\* word-list order.
C12_InitialDomains ==
    (pc = "randomize") =>
        /\ Keys(domains) = Keys(slots)
        /\ \A n \in 1..Len(slots) :
              domains[n][2] =
                  SelectSeqBy(words, {w \in Range(words) : Fits(w, slots[n][2])})

\* setupDomains left a slot with some but not all of the words of its length,
\* from a word list that also has a word of another length
C12_Witness ==
    /\ pc = "randomize"
    /\ \E n \in 1..Len(slots) :
          /\ Len(domains[n][2]) > 0
          /\ \E w \in Range(words) :
                Len(w) = Len(slots[n][2]) /\ w \notin Range(domains[n][2])
          /\ \E w \in Range(words) : Len(w) # Len(slots[n][2])

\* some slot has no loaded word that fits it: its initial domain is empty
HasEmptyInitialDomain ==
    \E n \in 1..Len(slots) : \A w \in Range(words) : ~Fits(w, slots[n][2])

\* C13. Empty initial domain: when the initial domain of a slot is empty the
\* slot keeps its (empty) domain entry, every return of backtrackingSolve is
\* false, the stored solution is not touched, and the solve reports NoSolution.
C13_EmptyDomainNoSolution ==
    [][(pc \in {"randomize", "ac3", "ac3done", "search"} /\ HasEmptyInitialDomain) =>
          /\ Keys(domains') = Keys(slots')
          /\ solution' = solution
          /\ (pc' = "search" /\ mode' = "ret") => ~retval'
          /\ (pc' = "settled") => status' = "NoSolution"]_vars

\* one slot of length 2 and a word list with no word of length 2: NoSolution
\* was reported after the search ran
C13_Witness ==
    /\ pc = "settled" /\ status = "NoSolution"
    /\ HasEmptyInitialDomain
    /\ Len(slots) = 1 /\ Len(slots[1][2]) = 2
    /\ words # <<>>
    /\ recursiveCalls = 1

\* the grid has no rows, or two of its rows differ in length
Malformed(g) ==
    \/ Len(g) = 0
    \/ \E r1, r2 \in 1..Len(g) : Len(g[r1]) # Len(g[r2])

\* C14. InvalidGrid: the solve callback on a grid with no rows or with rows of
\* different lengths ends in one step with the outcome InvalidGrid: no slot is
\* generated, neither ac3 nor backtrackingSolve runs, and slots, constraints,
\* domains and solution keep their values.
C14_InvalidGridRejected ==
    [][(pc = "thread" /\ Malformed(grid)) =>
          /\ pc' = "settled"
          /\ status' = "InvalidGrid"
          /\ UNCHANGED <<slots, constraints, domains, cellContents, solution>>
          /\ UNCHANGED <<queue, ac3Success, recursiveCalls, searchVars>>]_vars

\* a solve on a grid whose rows differ in length was rejected, with words loaded
C14_Witness ==
    /\ pc = "settled" /\ status = "InvalidGrid"
    /\ Len(grid) = 2 /\ Len(grid[1]) # Len(grid[2])
    /\ words # <<>>
    /\ activeSolves = 1

\* a numbered cell with the boundary or a Block before it and a cell that is
\* not a Block after it, across or down: the start of a run of two cells or more
OpensRun(pos) ==
    /\ InGrid(pos) /\ IsNumber(At(pos))
    /\ \/ /\ BoundaryOrBlock(<<pos[1], pos[2] - 1>>)
          /\ ~BoundaryOrBlock(<<pos[1], pos[2] + 1>>)
       \/ /\ BoundaryOrBlock(<<pos[1] - 1, pos[2]>>)
          /\ ~BoundaryOrBlock(<<pos[1] + 1, pos[2]>>)

NoRunOpened ==
    /\ ~Malformed(grid)
    /\ \A r \in 0..Rows(grid) - 1, c \in 0..Cols(grid) - 1 : ~OpensRun(<<r, c>>)

\* C15. NoSlots: the solve callback on a rectangular grid in which no numbered
\* cell opens a run of two cells or more ends in one step with the outcome
\* NoSlots and no slot stored: neither ac3 nor backtrackingSolve runs and
\* solution keeps its value.
C15_NoSlotsReported ==
    [][(pc = "thread" /\ NoRunOpened) =>
          /\ pc' = "settled"
          /\ status' = "NoSlots"
          /\ slots' = <<>>
          /\ UNCHANGED <<solution, queue, ac3Success, recursiveCalls, searchVars>>]_vars

\* NoSlots was reported for a grid with a numbered cell whose runs have length 1
C15_Witness ==
    /\ pc = "settled" /\ status = "NoSlots"
    /\ \E r \in 0..Rows(grid) - 1, c \in 0..Cols(grid) - 1 : IsNumber(At(<<r, c>>))
    /\ words # <<>>
    /\ slots = <<>>

\* the cells of the grid that carry a number
NumberedCells ==
    {pos \in (0..Rows(grid) - 1) \X (0..Cols(grid) - 1) : IsNumber(At(pos))}

\* pos is read before q, or is q, in row-major order
ReadBy(pos, q) == pos[1] < q[1] \/ (pos[1] = q[1] /\ pos[2] <= q[2])

\* C16. Renumbering invariant: after any sequence of editor operations the
\* numbered cell read n-th in row-major order carries the number n (so the
\* numbers are unique and are exactly 1..k').
C16_RenumberingInvariant ==
    \A q \in NumberedCells :
        parseInt(At(q)) = Cardinality({pos \in NumberedCells : ReadBy(pos, q)})

Supported(A, B) ==
    {w \in Range(Get(domains, A)) :
        \A o \in OverlapPairs(A, B) :
            \E w2 \in Range(Get(domains, B)) : w[o[1] + 1] = w2[o[2] + 1]}

\* C18. Revise semantics: in every state of a solve and for every arc (A, B)
\* of the constraints, revise(A, B) leaves in domain[A] exactly the words that
\* have a matching word of domain[B] at every overlap pair, in their order,
\* leaves the other domains alone, and returns true iff it removed a word.
C18_ReviseSemantics ==
    (pc \in {"randomize", "ac3", "ac3done", "search"}) =>
        \A A, B \in KeySet(slots) :
            ConstraintExists(A, B) =>
                LET after == revise(domains, constraints, A, B)
                IN /\ Keys(after) = Keys(domains)
                   /\ Get(after, A) = SelectSeqBy(Get(domains, A), Supported(A, B))
                   /\ \A C \in KeySet(slots) \ {A} : Get(after, C) = Get(domains, C)
                   /\ reviseChanged(domains, constraints, A, B)
                         <=> (Supported(A, B) # Range(Get(domains, A)))

\* ac3 is about to revise an arc whose revise removes a word and keeps another
C18_Witness ==
    /\ pc = "ac3" /\ Len(queue) > 0
    /\ LET A == Head(queue)[1]
           B == Head(queue)[2]
       IN /\ Supported(A, B) # {}
          /\ Supported(A, B) # Range(Get(domains, A))
          /\ Len(Get(domains, B)) >= 2

\* score(w): the sum of the letter frequencies of the letters of w
Score(w) == getFrequencyScore(letterFrequencies, w)

\* C19. Value ordering: the candidate sequence of every frame of the search,
\* as orderDomainValues returned it, is in non-decreasing order of score, so a
\* word of lower score is tried before a word of higher score.
C19_AscendingByScore ==
    \A n \in 1..Len(stack) :
        \A i, j \in 1..Len(stack[n].orderedValues) :
            i < j => Score(stack[n].orderedValues[i]) <= Score(stack[n].orderedValues[j])

Unassigned == KeySet(slots) \ DOMAIN assignment

DomainSize(s) == Len(Get(domains, s))

\* the number of slots s has a constraint with
Degree(s) == Cardinality({B \in KeySet(slots) : ConstraintExists(s, B)})

\* C20. Variable selection: in every state of the search, each slot that
\* selectUnassignedVariable can return is unassigned, has a domain of minimal
\* size among the unassigned slots and has maximal degree among the unassigned
\* slots of that size; some slot is returned while a slot is unassigned, and
\* null (no slot) is returned only when every slot is assigned.
C20_VariableSelection ==
    (pc \in {"helper", "checked", "selected", "search"}) =>
        LET selected == selectUnassignedVariable(domains, constraints, assignment)
        IN /\ (Unassigned # {}) => (selected # {})
           /\ (selected = {}) => (Unassigned = {})
           /\ \A s \in selected :
                /\ s \in Unassigned
                /\ \A t \in Unassigned : DomainSize(s) <= DomainSize(t)
                /\ \A t \in Unassigned :
                      DomainSize(t) = DomainSize(s) => Degree(t) <= Degree(s)

\* a slot was selected that had a larger degree than another unassigned slot
\* of the same minimal domain size, while a third slot had a larger domain
C20_Witness ==
    /\ pc = "selected" /\ mode = "loop" /\ Len(stack) = 1
    /\ \E t, u \in Unassigned :
          /\ DomainSize(t) = DomainSize(stack[1].varToAssign)
          /\ Degree(t) < Degree(stack[1].varToAssign)
          /\ DomainSize(u) > DomainSize(t)

\* backtrackingSolve is entered with an assignment whose key the cache holds
CacheHit ==
    /\ pc = "search" /\ mode = "call"
    /\ Cardinality(DOMAIN assignment) # Len(slots)
    /\ assignmentKeyOf(assignment) \in DOMAIN cache

\* C21. Memoization is unobservable: whenever a call of backtrackingSolve is
\* answered from the cache, the same call with the cache taken out has, for
\* every tie-break and shuffle, one result only: the cached boolean, with
\* solution and domains as they are at the call.
C21_MemoUnobservable ==
    CacheHit =>
        uncachedSolve(assignment, domains, solution)
            = {[ret |-> cache[assignmentKeyOf(assignment)],
                solution |-> solution, domains |-> domains]}

\* a call answered from the cache, below the outermost call, with domains that
\* forward checks have pruned
C21_Witness ==
    /\ CacheHit
    /\ Len(stack) >= 1
    /\ \E n \in 1..Len(slots) :
          Len(domains[n][2]) < EntrySize(slots[n][1]) /\ Len(domains[n][2]) > 0

\* C22. The dictionary is read-only during solving: no step of a solve
\* changes words, any bucket of wordLengthCache (contents or order), or
\* letterFrequencies.
C22_DictionaryReadOnly ==
    [][/\ words' = words
       /\ wordLengthCache' = wordLengthCache
       /\ letterFrequencies' = letterFrequencies]_vars

\* randomizeDomains has left a domain in another order than its bucket of
\* wordLengthCache, and the caches are still those loadWords built
C22_Witness ==
    /\ pc = "ac3"
    /\ \E n \in 1..Len(domains) :
          /\ Len(domains[n][2]) >= 2
          /\ domains[n][2] # setupDomains(slots, cellContents, wordLengthCache)[n][2]
          /\ Len(domains[n][2]) = Len(wordLengthCache[Len(slots[n][2])])
    /\ wordLengthCache = cacheWordsByLength(words)
    /\ letterFrequencies = calculateLetterFrequencies(words)

\* C23 (as amended): ac3 returns the same value for every order in which the arcs
\* are taken from the work set, and when that value is true the final domain of
\* every slot, as a set of words, is the same for every order
C23_OrderIndependentResult ==
    pc = "ac3done" =>
        LET fifo == ac3(setupDomains(slots, cellContents, wordLengthCache), constraints)
        IN /\ ac3Success = fifo.success
           /\ ac3Success =>
                \A n \in 1..Len(slots) :
                    Range(Get(domains, slots[n][1])) = Range(Get(fifo.domains, slots[n][1]))

\* C23 (as stated): the final domain of every slot and the returned value are the
\* same for every order
C23_OrderIndependent ==
    pc = "ac3done" =>
        LET fifo == ac3(setupDomains(slots, cellContents, wordLengthCache), constraints)
        IN /\ ac3Success = fifo.success
           /\ \A n \in 1..Len(slots) :
                  Range(Get(domains, slots[n][1])) = Range(Get(fifo.domains, slots[n][1]))

\* ac3 returned true after a revision re-enqueued an arc and it pruned two slots
C23_Witness ==
    /\ pc = "ac3done"
    /\ ac3Success
    /\ Cardinality({n \in 1..Len(slots) :
           Len(Get(domains, slots[n][1])) < EntrySize(slots[n][1])}) >= 2

\* the entries of one display: one <<number, word>> for each slot of the
\* direction, in strictly ascending order of the number
Listed(dir, list) ==
    /\ \A i, j \in 1..Len(list) : i < j => parseInt(list[i][1]) < parseInt(list[j][1])
    /\ Range(list) = {<<n[1], solution[n]>> : n \in {m \in KeySet(slots) : m[2] = dir}}
    /\ Len(list) = Cardinality({m \in KeySet(slots) : m[2] = dir})

\* C24. Solution report: after a successful solve the across list holds exactly
\* one (number, word) entry for each assigned ACROSS slot and the down list one
\* for each assigned DOWN slot, each list in ascending order of slot number, with
\* no slot missing and none listed in the wrong stream.
C24_SolutionReport ==
    (pc = "settled" /\ status = "Solved") =>
        /\ KeySet(slots) = DOMAIN solution
        /\ Listed("ACROSS", acrossDisplay)
        /\ Listed("DOWN", downDisplay)

\* a solved grid whose second ACROSS slot in reading order has the lower number,
\* with an entry in each display
C24_Witness ==
    /\ pc = "settled" /\ status = "Solved"
    /\ Len(acrossDisplay) >= 2 /\ Len(downDisplay) >= 1
    /\ \E i, j \in 1..Len(slots) :
          /\ i < j /\ slots[i][1][2] = "ACROSS" /\ slots[j][1][2] = "ACROSS"
          /\ parseInt(slots[j][1][1]) < parseInt(slots[i][1][1])

\* a complete assignment in which all overlapping slots agree on their shared letters
CompleteAndConsistent(a) ==
    /\ DOMAIN a = KeySet(slots)
    /\ \A s1 \in KeySet(slots) :
          \A s2 \in Range(neighborsOf(constraints, s1)) :
              \A o \in Range(Get(Get(constraints, s1), s2)) :
                  a[s1][o[1] + 1] = a[s2][o[2] + 1]

\* C25. Solution cap of the collect-all variant: at every point of backtrack the
\* number of stored solutions is at most MAX_SOLUTIONS, once the cap is reached
\* the search stores no solution, assigns no slot and opens no frame any more,
\* and every stored solution is a complete assignment in which all overlapping
\* slots agree on their shared letters.
C25_SolutionCap ==
    /\ [](pc \in {"collect", "collected"} =>
            /\ Len(solutions) <= MAX_SOLUTIONS
            /\ \A i \in 1..Len(solutions) : CompleteAndConsistent(solutions[i]))
    /\ [][(pc = "collect" /\ Len(solutions) >= MAX_SOLUTIONS) =>
            /\ solutions' = solutions
            /\ assignment' = assignment
            /\ recursiveCalls' = recursiveCalls
            /\ Len(stack') < Len(stack) \/ pc' = "collected"]_vars

\* findAllSolutions returned MAX_SOLUTIONS solutions of a grid that has more:
\* three slots with five words each
C25_Witness ==
    /\ pc = "collected"
    /\ Len(solutions) = MAX_SOLUTIONS
    /\ retval = solutions
    /\ Len(slots) = 3
    /\ \A n \in 1..Len(slots) : Len(domains[n][2]) = 5

\* C26. Cooperative cancellation: a cancel signal raised during a solve is observed
\* at the next entry into the recursive search or the next AC-3 dequeue; the solve
\* then stops and returns Cancelled.  A signal raised before backtrackingSolve is
\* entered always has such an entry ahead of it, so the solve ends as Cancelled.
C26_CancelObserved ==
    (pc = "settled" /\ cancel) => status = "Cancelled"

\* no cell of the grid is left to fill: the letters of a solution were entered
AllEntered ==
    Len(grid) > 0 /\ \A r \in 1..Len(grid) : \A c \in 1..Len(grid[r]) : grid[r][c] # Blank

\* C27 (as amended): if a solve returned assignment S for a grid, then solving the
\* same grid again with the letters of S entered into the slot cells that hold no
\* number returns an assignment, and it has the letters of S in every such cell.
C27_ResolveKeepsLetters ==
    (AllEntered /\ pc = "settled") => (status = "Solved" /\ Solves(solution))

\* C27 (as stated): the re-solve returns an assignment equal to S, so the stored
\* solution never changes during a solve of the grid with S entered, and that
\* solve reports a solution.
C27_ResolveIdempotent ==
    /\ [][AllEntered => solution' = solution]_vars
    /\ [](AllEntered /\ pc = "settled" => status = "Solved")

\* the search of a re-solve returned true, with two words of the dictionary
\* fitting the letters entered for one slot
C27_Witness ==
    /\ AllEntered
    /\ OutermostReturned /\ retval
    /\ \E n \in 1..Len(slots) : EntrySize(slots[n][1]) >= 2

\* C28. Each solve is a function of the current grid and dictionary only: at the
\* start of every solve slots, constraints, pre-filled letters and domains are
\* rebuilt from the grid and the word cache alone, the search starts from an empty
\* assignment, an empty cache and a call count of 0, whatever earlier solves left
\* behind, and no step of a solve modifies the grid matrix.
C28_SolveRebuilds ==
    /\ [](pc = "randomize" =>
            /\ slots = identifySlots(grid, 0, <<>>)
            /\ constraints = generateConstraints(slots)
            /\ cellContents = buildCellContents(grid)
            /\ domains = setupDomains(slots, cellContents, wordLengthCache))
    /\ []((pc = "search" /\ mode = "call" /\ Len(stack) = 0) =>
            /\ assignment = EmptyObject
            /\ cache = EmptyObject
            /\ recursiveCalls = 0)
    /\ [][(pc # "idle" \/ pc' # "idle") => grid' = grid]_vars

\* a solve of a grid with letters entered since the last solve has rebuilt its
\* slots and domains; the solution and the call count of the earlier solve are
\* still stored
C28_Witness ==
    /\ pc = "randomize"
    /\ AllEntered
    /\ solution # EmptyObject
    /\ recursiveCalls > 0
    /\ \E n \in 1..Len(slots) : Len(domains[n][2]) >= 2

\* the slots that share a cell with slot s
CrossingSlots(s) == {t \in KeySet(slots) : Crossing(s, t)}

\* a step of backtrackingSolve in which forwardCheck succeeded
ForwardCheckSucceeded == pc = "search" /\ mode = "loop" /\ mode' = "call"

\* C29. Forward-check effect: when forwardCheck(S, w) succeeds, the domain of each
\* unassigned neighbour N of S becomes exactly the words of N's previous domain
\* that agree with w at every overlap of (S, N), the returned snapshot maps N to
\* its previous domain, and the domains of assigned slots and of slots that are
\* not neighbours of S are unchanged.
C29_ForwardCheckEffect ==
    [][ForwardCheckSucceeded =>
        LET S == CHOOSE s \in DOMAIN assignment' : s \notin DOMAIN assignment
            w == assignment'[S]
            pruned == CrossingSlots(S) \ DOMAIN assignment'
            snapshot == lastInferences'.inferences
        IN /\ ~lastInferences'.failed
           /\ \A N \in pruned :
                /\ Get(domains', N) = SelectSeqBy(Get(domains, N),
                                         {v \in Range(Get(domains, N)) :
                                             Agree(S, w, N, v)})
                /\ <<N, Get(domains, N)>> \in Range(snapshot)
           /\ Len(snapshot) = Cardinality(pruned)
           /\ \A N \in KeySet(slots) \ pruned : Get(domains', N) = Get(domains, N)]_vars

\* forwardCheck succeeded for a slot with an assigned neighbour and an unassigned
\* neighbour, and it removed a word from the unassigned one
C29_Witness ==
    /\ pc = "search" /\ mode = "call" /\ Len(stack) >= 2
    /\ ~lastInferences.failed
    /\ LET S == stack[Len(stack)].varToAssign
       IN /\ S \in DOMAIN assignment
          /\ CrossingSlots(S) \cap (DOMAIN assignment) # {}
          /\ \E e \in Range(lastInferences.inferences) :
                /\ e[1] \in CrossingSlots(S)
                /\ Len(Get(domains, e[1])) < Len(e[2])

\* the complete assignments over the initial domains that satisfy every overlap
AllSolutions ==
    UNION {{a \in [KeySet(slots) -> Range(words)] :
              /\ \A n \in 1..Len(slots) : a[slots[n][1]] \in Range(Get(initial, slots[n][1]))
              /\ \A s, t \in KeySet(slots) : Crossing(s, t) => Agree(s, a[s], t, a[t])} :
           initial \in {setupDomains(slots, cellContents, wordLengthCache)}}

NoDuplicateWords == \A i, j \in 1..Len(words) : words[i] = words[j] => i = j

Occurrences(arr, x) == Cardinality({i \in 1..Len(arr) : arr[i] = x})

\* getWordsByLength(L): the cached array, [] when the key is missing
CachedWords(L) == IF L \in DOMAIN wordLengthCache THEN wordLengthCache[L] ELSE <<>>

\* the count stored for a letter, none stored counting as 0
StoredFrequency(ch) == IF ch \in DOMAIN letterFrequencies THEN letterFrequencies[ch] ELSE 0

\* the lengths and the letters that words or a cache mention
MentionedLengths == {Len(w) : w \in Range(words)} \cup DOMAIN wordLengthCache

MentionedLetters == UNION {Range(w) : w \in Range(words)} \cup DOMAIN letterFrequencies

\* the last call was rejected
Rejected == retval = FALSE

\* C31. Dictionary caches stay consistent under edits: after any sequence of
\* addWord, removeWord, editWord and importWordList calls, wordLengthCache[L]
\* holds exactly the words of length L that are in words (each as often as words
\* holds it), letterFrequencies[c] is the number of occurrences of c over all
\* words, and a rejected call changes none of the three.
C31_CachesConsistent ==
    /\ [](/\ \A L \in MentionedLengths :
                /\ \A w \in Range(CachedWords(L)) : Len(w) = L
                /\ \A w \in Range(words) \cup Range(CachedWords(L)) :
                      Len(w) = L => Occurrences(CachedWords(L), w) = Occurrences(words, w)
          /\ \A ch \in MentionedLetters : StoredFrequency(ch) = SumLetter(words, ch))
    /\ [][Rejected' => UNCHANGED dictVars]_vars

\* a word was removed so that a cached array is empty while words remain, calls
\* of each rejection kind having been made before
C31_Witness ==
    /\ pc = "removeWord" /\ retval = TRUE
    /\ words # <<>>
    /\ \E L \in DOMAIN wordLengthCache : wordLengthCache[L] = <<>>
    /\ status = "Duplicate"

\* the modes that are active
ActiveModes ==
    {m \in {"number", "letter", "drag"} :
        \/ m = "number" /\ isNumberEntryMode
        \/ m = "letter" /\ isLetterEntryMode
        \/ m = "drag" /\ isDragMode}

\* C32. Editor modes are mutually exclusive: at most one of isNumberEntryMode,
\* isLetterEntryMode and isDragMode is true; pressing the button of a mode that
\* is not active leaves exactly that mode active, whatever was active before,
\* and pressing the button of the active mode leaves all three false.
C32_ModesExclusive ==
    /\ [](Cardinality(ActiveModes) <= 1)
    /\ [][/\ StartNumberEntryMode =>
                ActiveModes' = IF isNumberEntryMode THEN {} ELSE {"number"}
          /\ StartLetterEntryMode =>
                ActiveModes' = IF isLetterEntryMode THEN {} ELSE {"letter"}
          /\ StartDragMode =>
                ActiveModes' = IF isDragMode THEN {} ELSE {"drag"}]_vars

\* number entry mode was entered while drag mode was active: a drag that
\* began in drag mode is still under way
C32_Witness == ActiveModes = {"number"} /\ isDragging

\* a step pushed a new action: an edit that changed a cell, or a block toggle
PushedAction ==
    /\ Len(undoStack') = Len(undoStack) + 1
    /\ HandleCellInput \/ HandleDrop

\* C33. Undo and redo are inverse on the grid: performUndo followed by
\* performRedo, and performRedo followed by performUndo, leave grid, undoStack
\* and redoStack as they were; each is a no-op on an empty stack; and a new edit
\* or block toggle empties the redo stack.
C33_UndoRedoInverse ==
    /\ [](/\ undoStack # <<>> => performRedo(performUndo(Ui)) = Ui
          /\ redoStack # <<>> => performUndo(performRedo(Ui)) = Ui
          /\ undoStack = <<>> => performUndo(Ui) = Ui
          /\ redoStack = <<>> => performRedo(Ui) = Ui)
    /\ [][PushedAction => redoStack' = <<>>]_vars

\* an action of a stack names a cell of the current grid
InsideGrid(action) ==
    /\ action.row < Rows(grid)
    /\ action.col < Len(grid[action.row + 1])

\* C37. Undo history stays inside the grid: after any sequence of cell edits,
\* block toggles, undo, redo, generateGrid, loadPredefinedPuzzle and importGrid,
\* every action stored on undoStack or redoStack refers to a (row, col) that
\* lies inside the current grid.
C37_HistoryInsideGrid ==
    \A action \in Range(undoStack) \cup Range(redoStack) : InsideGrid(action)

\* C34. The busy flag is always released: after every solveCrossword invocation
\* that started a solve, whatever the outcome (InvalidGrid, NoSlots, NoSolution,
\* Solved, or an exception inside the solve), isSolving eventually becomes false
\* again with the solve button enabled, the state in which a solve can start.
C34_BusyReleased == isSolving ~> (~isSolving /\ ~buttonDisabled /\ pc = "idle")

\* the flag was released after an exception in the middle of the search
C34_Witness ==
    /\ pc = "idle" /\ ~isSolving /\ ~buttonDisabled
    /\ status = "Error" /\ recursiveCalls > 1

\* C35. Cell numbers stay pairwise distinct: starting from a grid whose numbered
\* cells carry distinct numbers, after any sequence of editor operations no two
\* cells carry the same number, so no two cells give the same slot name.
C35_NumbersDistinct ==
    \A p, q \in NumberedCells :
        p # q => /\ parseInt(At(p)) # parseInt(At(q))
                 /\ \A dir \in {"ACROSS", "DOWN"} : <<At(p), dir>> # <<At(q), dir>>

\* numbers were added and removed: three cells are numbered and the numbers do
\* not run in reading order
C35_Witness ==
    /\ Cardinality(NumberedCells) >= 3
    /\ \E p, q \in NumberedCells : ReadBy(p, q) /\ parseInt(At(p)) > parseInt(At(q))

\* the cells two slots share
SharedCells(A, B) == Range(Get(slots, A)) \cap Range(Get(slots, B))

\* C36. Single overlap: any two distinct slots produced by generateSlots share
\* at most one cell, so every list constraints[A][B] built by
\* generateConstraints contains exactly one index pair.
C36_SingleOverlap ==
    \A A, B \in KeySet(slots) :
        A # B =>
          /\ Cardinality(SharedCells(A, B)) <= 1
          /\ ConstraintExists(A, B) => Len(Get(Get(constraints, A), B)) = 1

\* an across slot and a down slot that cross away from their first cells, in
\* a grid that has two more slots
C36_Witness ==
    /\ Len(slots) >= 3
    /\ \E A, B \in KeySet(slots) :
          /\ ConstraintExists(A, B)
          /\ \E i, j \in 1..2 : Get(Get(constraints, A), B) = <<<<i, j>>>>

\* the grid has two slots, of one length, that share no cell, and the
\* dictionary holds one word of that length
TwoSlotsOneWord(A, B, w) ==
    /\ KeySet(slots) = {A, B} /\ A # B
    /\ Len(Get(slots, A)) = Len(Get(slots, B))
    /\ ~Crossing(A, B)
    /\ {i \in 1..Len(words) : Len(words[i]) = Len(Get(slots, A))} # {}
    /\ \A i \in 1..Len(words) :
          Len(words[i]) = Len(Get(slots, A)) <=> words[i] = w
    /\ Cardinality({i \in 1..Len(words) : words[i] = w}) = 1

\* a solve has ended and its outcome is shown
Settled == pc = "settled" /\ status \in {"Solved", "NoSolution"}

\* C38 as stated. No all-different constraint: for a grid with two slots of the
\* same length that do not overlap and a dictionary containing exactly one word
\* of that length, the solve returns Solved with that word assigned to both.
C38_WordReused ==
    Settled =>
      \A A, B \in KeySet(slots) : \A w \in Range(words) :
          TwoSlotsOneWord(A, B, w) =>
             status = "Solved" /\ solution[A] = w /\ solution[B] = w

\* C38, amended. The same, for the grids in which the letters already entered
\* in the cells of the two slots are letters of that word.
C38_WordReusedWhereItFits ==
    Settled =>
      \A A, B \in KeySet(slots) : \A w \in Range(words) :
          (TwoSlotsOneWord(A, B, w) /\ Fits(w, Get(slots, A)) /\ Fits(w, Get(slots, B))) =>
             status = "Solved" /\ solution[A] = w /\ solution[B] = w

\* a solve of the blank grid ended: both slots carry the one word of length 3
C38_Witness ==
    /\ Settled
    /\ \E A, B \in KeySet(slots) : \E w \in Range(words) :
          /\ TwoSlotsOneWord(A, B, w)
          /\ \A pos \in Range(Get(slots, A)) \cup Range(Get(slots, B)) : ~IsLetter(At(pos))
          /\ Len(w) = 3 /\ Len(words) = 2
          /\ solution = [s \in {A, B} |-> w]

\* C39. Forward checking never fails inside the search: every call of
\* forwardCheck made by backtrackingSolve, which follows a call of isConsistent
\* that returned true for the same slot, word and domains, returns a snapshot
\* and not false, so restoreDomains is never given false.
C39_ForwardCheckNeverFails ==
    [][(BacktrackTry /\ lastInferences' # lastInferences) => ~lastInferences'.failed]_vars

\* a forward check of the search returned a snapshot after it had pruned the
\* domain of a neighbour, and the search went on below it
C39_Witness ==
    /\ pc = "search" /\ mode = "call"
    /\ ~lastInferences.failed
    /\ \E i \in 1..Len(lastInferences.inferences) :
          Len(lastInferences.inferences[i][2])
             > Len(Get(domains, lastInferences.inferences[i][1]))

\* C40. The memoization cache is never hit: when the dictionary has no duplicate
\* words, within one top-level solve backtrackingSolve is never entered twice
\* with the same partial assignment, so the lookup cache[assignmentKey] is
\* undefined at every entry.
C40_CacheNeverHit == NoDuplicateWords => ~CacheHit

\* with a duplicate-free dictionary a call is entered below the outermost one
\* after some frame has stored its failure, and its own key is not in the cache
C40_Witness ==
    /\ NoDuplicateWords
    /\ pc = "search" /\ mode = "call"
    /\ Len(stack) >= 1
    /\ Cardinality(DOMAIN assignment) # Len(slots)
    /\ cache # EmptyObject
    /\ assignmentKeyOf(assignment) \notin DOMAIN cache

=============================================================================
